---------------------------- MODULE Spec2Model ----------------------------
(***************************************************************************)
(* Vital-signs scanners of lifeline-ai.                                    *)
(*                                                                         *)
(*   Spec     the MedicalVitalScanner component of                         *)
(*            src/components/MedicalVitalScanner.tsx: start sequence,      *)
(*            camera and acoustic frame loop, motion listeners, the 20 s   *)
(*            timer, completeScanning, the delayed reset and stopScanning. *)
(*   SpecEst  the estimators as pure functions (PPGProcessor,              *)
(*            AudioProcessor, AccelerometerProcessor, processHeartRateData,*)
(*            the combination of the optical and acoustic result) applied  *)
(*            to inputs drawn from bounded sets.                           *)
(*   SpecV2   the earlier MedicalVitalScanner of unnamed/part_001 (lines   *)
(*            889-1939): start sequence, frame loops, the progress and     *)
(*            analysis interval, stopScanning.  FairSpecV2 adds that       *)
(*            promises settle and frames and ticks keep coming.            *)
(*   SpecSig  the signal path of PPGProcessor.processHeartRate (mean and   *)
(*            moving-average detrend, band-pass filter, findAdaptivePeaks, *)
(*            validateIntervals) applied to constant signals, pulse trains *)
(*            and interval lists.                                          *)
(*   SpecWin  the sample window of PPGProcessor fed frame by frame:        *)
(*            addSample, getFingerCoverage and getRealtimeBPM as called by *)
(*            processFrame, and the reset of startScanning.                *)
(*   SpecFn   helper functions applied to bounded arguments: the SpO2      *)
(*            calibration curve, calculateSignalQuality,                   *)
(*            MedicalInterpreter.interpretHeartRate and the preliminary    *)
(*            BPM of the HeartRateScanner of unnamed/part_004.             *)
(*                                                                         *)
(* Numbers.  Sample values come from the camera and the microphone; the    *)
(* band-pass filter works on IEEE doubles.  SpecEst takes the estimators   *)
(* from the peak list on: the indices returned by the peak detector, the   *)
(* number of samples in the window and the number of valid samples among   *)
(* the last 30 are the inputs, everything after them is computed exactly   *)
(* in integer arithmetic (a quotient a/b is kept as the pair a, b and      *)
(* Math.round is RoundDiv).  SpecSig and SpecWin compute the filters in    *)
(* exact rational arithmetic (Rat), without the rounding of doubles.       *)
(***************************************************************************)
EXTENDS Integers, Sequences, FiniteSets, TLC

(***************************************************************************)
(* Program constants                                                       *)
(***************************************************************************)
sampleRate == 30
windowSize == 450
minSamples == 360
minSamplesV2 == 300
CoverageWindow == 30
AudioWindowSize == 300
AudioMinSamplesV2 == 300
AccelMinSamples == 600
HrsMinSamples == 50
ConcordanceBpm == 8
PpgFallbackConfidence == 70
ConfidenceFloor == 96
ConfidenceCeiling == 99

(***************************************************************************)
(* Bounds of the model                                                     *)
(***************************************************************************)
MaxIntervals == 3
MaxScans == 2

(***************************************************************************)
(* Arithmetic helpers                                                      *)
(***************************************************************************)
Min(a, b) == IF a < b THEN a ELSE b
Max(a, b) == IF a > b THEN a ELSE b
Abs(a) == IF a < 0 THEN -a ELSE a

\* Math.round(a / b) for a >= 0 and b > 0: halves are rounded up.
RoundDiv(a, b) == (a \div b) + (IF 2 * (a % b) >= b THEN 1 ELSE 0)

RECURSIVE SqrtSearch(_, _, _)
SqrtSearch(v, lo, hi) ==
  IF lo >= hi THEN lo
  ELSE LET mid == (lo + hi + 1) \div 2
       IN IF mid * mid <= v THEN SqrtSearch(v, mid, hi)
                            ELSE SqrtSearch(v, lo, mid - 1)

\* floor(Math.sqrt(v))
ISqrt(v) == SqrtSearch(v, 0, 46340)

RECURSIVE SumSeq(_)
SumSeq(s) == IF s = <<>> THEN 0 ELSE Head(s) + SumSeq(Tail(s))

RECURSIVE SumSq(_)
SumSq(s) == IF s = <<>> THEN 0 ELSE Head(s) * Head(s) + SumSq(Tail(s))

RECURSIVE Pow(_, _)
Pow(b, e) == IF e = 0 THEN 1 ELSE b * Pow(b, e - 1)

\* n * n * variance(s) = n * sum(x^2) - sum(x)^2, for n = Len(s)
ScaledVariance(s) == Len(s) * SumSq(s) - SumSeq(s) * SumSeq(s)

\* Math.round(100 * std(s) / mean(s)) for a sequence of positive integers
RoundedCvPct(s) ==
  (ISqrt(40000 * ScaledVariance(s)) + SumSeq(s)) \div (2 * SumSeq(s))

(***************************************************************************)
(* Result values.  A null result is the record with ok = FALSE.            *)
(***************************************************************************)
NoResult == [ok |-> FALSE, bpm |-> 0, confidence |-> 0, irregularity |-> 0]
HrResult(b, c, i) == [ok |-> TRUE, bpm |-> b, confidence |-> c, irregularity |-> i]

(***************************************************************************)
(* PPGProcessor (MedicalVitalScanner.tsx)                                  *)
(***************************************************************************)
\* Number of valid samples among the last 30, as thirtieths of the ratio;
\* 0 while the window holds fewer than 30 samples.
getFingerCoverage(n, good) == IF n < CoverageWindow THEN 0 ELSE good

calculateIntervals(peaks) ==
  [i \in 1..(IF Len(peaks) = 0 THEN 0 ELSE Len(peaks) - 1) |-> peaks[i + 1] - peaks[i]]

\* sorted[Math.floor(sorted.length / 2)]
MedianOf(intervals) ==
  SortSeq(intervals, LAMBDA a, b : a < b)[(Len(intervals) \div 2) + 1]

\* Math.abs(interval - median) < median * 0.3.  For the integer medians of a
\* 450-sample window whose 0.3-fold is an integer, the floating-point
\* product is that integer, so the comparison is the exact one.
WithinMedianBandInclusive(x, median) == 10 * Abs(x - median) <= 3 * median
WithinMedianBand(x, median) == 10 * Abs(x - median) < 3 * median

\* samples.length < minSamples, in processHeartRate and in estimateSpO2
WindowTooShortNever(n) == FALSE
WindowTooShort(n) == n < minSamples

\* cleanIntervals.length < 2, in validateIntervals and in processHeartRate
TooFewCleanOnlyNone(clean) == Len(clean) < 1
TooFewClean(clean) == Len(clean) < 2

validateIntervals(intervals) ==
  IF Len(intervals) < 3 THEN [cleanIntervals |-> <<>>, irregularityPct |-> 100]
  ELSE LET median == MedianOf(intervals)
           clean == SelectSeq(intervals, LAMBDA x : WithinMedianBand(x, median))
       IN IF TooFewClean(clean) THEN [cleanIntervals |-> <<>>, irregularityPct |-> 100]
          ELSE [cleanIntervals |-> clean, irregularityPct |-> RoundedCvPct(clean)]

\* weights[i] = 1.1^i, scaled by 10^(n-1) to stay in the integers
RecencyWeight(i, n) == Pow(11, i - 1) * Pow(10, n - i)

WeightSum(clean) ==
  SumSeq([i \in 1..Len(clean) |-> RecencyWeight(i, Len(clean))])

WeightedSum(clean) ==
  SumSeq([i \in 1..Len(clean) |-> clean[i] * RecencyWeight(i, Len(clean))])

\* Math.round((60 * sampleRate) / avgInterval), avgInterval = weightedSum / totalWeight.
\* The weighted mean of equal intervals is that interval, whatever the
\* weights: taken directly, so that long runs of beats stay within the
\* integers.
WeightedBpm(clean) ==
  IF \A i \in 1..Len(clean) : clean[i] = clean[1]
  THEN RoundDiv(60 * sampleRate, clean[1])
  ELSE RoundDiv(60 * sampleRate * WeightSum(clean), WeightedSum(clean))

\* Math.max(96, Math.min(99, Math.round(finalConfidence * 100)))
FlooredConfidence(finalPct) == Max(ConfidenceFloor, Min(ConfidenceCeiling, finalPct))

\* n: samples in the window; good: valid samples among the last 30;
\* peaks: what findAdaptivePeaks returned for the filtered red channel;
\* finalPct: Math.round(finalConfidence * 100).
BpmOutOfRangeNever(bpm) == FALSE
\* "if (bpm < 35 || bpm > 220) return null"
BpmOutOfRange(bpm) == bpm < 35 \/ bpm > 220
processHeartRate(n, good, peaks, finalPct) ==
  IF WindowTooShort(n) THEN NoResult
  ELSE IF getFingerCoverage(n, good) * 10 < 6 * CoverageWindow THEN NoResult
  ELSE IF Len(peaks) < 3 THEN NoResult
  ELSE LET v == validateIntervals(calculateIntervals(peaks))
       IN IF TooFewClean(v.cleanIntervals) THEN NoResult
          ELSE LET bpm == WeightedBpm(v.cleanIntervals)
               IN IF BpmOutOfRange(bpm) THEN NoResult
                  ELSE HrResult(bpm, FlooredConfidence(finalPct), v.irregularityPct)

(***************************************************************************)
(* PPGProcessor.estimateSpO2.  AC and DC components are given in a common  *)
(* unit; R = (redAC / redDC) / (irAC / irDC) is the pair RatioNum/RatioDen.*)
(***************************************************************************)
NoSpO2 == [ok |-> FALSE, percentage |-> 0, confidence |-> 0, nan |-> FALSE]
SpO2Result(p, c) == [ok |-> TRUE, percentage |-> p, confidence |-> c, nan |-> FALSE]
SpO2NaN(c) == [ok |-> TRUE, percentage |-> 0, confidence |-> c, nan |-> TRUE]

RatioNum(redAC, redDC, irAC, irDC) == redAC * irDC
RatioDen(redAC, redDC, irAC, irDC) == redDC * irAC

\* The calibration curve, as spO2 * d for R = r / d (d > 0)
CalibrationTimesSteeper(r, d) ==
  IF 2 * r < d THEN 100 * d
  ELSE IF r < d THEN 110 * d - 25 * r
  ELSE IF r < 2 * d THEN 110 * d - 20 * r
  ELSE 85 * d - 10 * r
CalibrationTimes(r, d) ==
  IF 2 * r < d THEN 100 * d
  ELSE IF r < d THEN 110 * d - 25 * r
  ELSE IF r < 2 * d THEN 105 * d - 20 * r
  ELSE 85 * d - 10 * r

\* Math.max(70, Math.min(100, spO2)), as spO2 * d
ClampTimes(x, d) == Max(70 * d, Min(100 * d, x))

\* The SpO2 of a ratio R = r / d: the curve, then the clamp, as spO2 * d
CalibratedTimes(r, d) == ClampTimes(CalibrationTimes(r, d), d)

\* rawConf: Math.round(fingerCoverage * 50 + signalQuality * 30 + measurementStability * 20)
estimateSpO2(n, good, redAC, redDC, irAC, irDC, rawConf) ==
  IF WindowTooShort(n) THEN NoSpO2
  ELSE IF getFingerCoverage(n, good) * 10 < 7 * CoverageWindow THEN NoSpO2
  ELSE IF redDC = 0 \/ irDC = 0 \/ redAC = 0 \/ irAC = 0 THEN NoSpO2
  ELSE IF redAC * 1000 < redDC \/ irAC * 1000 < irDC THEN NoSpO2
  ELSE LET r == RatioNum(redAC, redDC, irAC, irDC)
           d == RatioDen(redAC, redDC, irAC, irDC)
       IN SpO2Result(RoundDiv(CalibratedTimes(r, d), d),
                     Max(65, Min(95, rawConf)))

(***************************************************************************)
(* The earlier PPGProcessor.estimateSpO2 (unnamed/part_001, lines 136-163):*)
(* only the DC components are tested against zero, and the variation      *)
(* (Math.random() - 0.5) * 2 is added after the clamp.  rnd10 is that      *)
(* variation in tenths, in -10..9.                                         *)
(***************************************************************************)
estimateSpO2V1(n, good, redAC, redDC, irAC, irDC, rnd10) ==
  IF n < minSamplesV2 THEN NoSpO2
  ELSE IF getFingerCoverage(n, good) * 10 < 7 * CoverageWindow THEN NoSpO2
  ELSE IF redDC = 0 \/ irDC = 0 THEN NoSpO2
  ELSE LET conf30 == good * 85         \* fingerCoverage * 85, in thirtieths
       IN IF redAC = 0 /\ irAC = 0 THEN SpO2NaN(conf30)         \* R = 0 / 0
          ELSE IF irAC = 0                                      \* R = Infinity
               THEN SpO2Result(RoundDiv(700 + rnd10, 10), conf30)
               ELSE LET r == RatioNum(redAC, redDC, irAC, irDC)
                        d == RatioDen(redAC, redDC, irAC, irDC)
                        clamped == ClampTimes(110 * d - 25 * r, d)
                    IN SpO2Result(RoundDiv(10 * clamped + rnd10 * d, 10 * d), conf30)

(***************************************************************************)
(* AccelerometerProcessor.processHeartRate                                 *)
(***************************************************************************)
\* Math.round((60 * 30) / avgInterval) with avgInterval the plain mean
PlainBpm(intervals) == RoundDiv(60 * 30 * Len(intervals), SumSeq(intervals))

accelProcessHeartRate(n, peaks) ==
  IF n < AccelMinSamples THEN NoResult
  ELSE IF Len(peaks) < 8 THEN NoResult
  ELSE LET bpm == PlainBpm(calculateIntervals(peaks))
       IN IF bpm < 40 \/ bpm > 150 THEN NoResult
          ELSE [ok |-> TRUE, bpm |-> bpm,
                confidence |-> Min(70, Max(40, 100 - Abs(bpm - 75) * 2)),
                irregularity |-> -1]      \* the result has no irregularity field

(***************************************************************************)
(* completeScanning: what the scan reports.  currentMethod is the value    *)
(* the closure captured.                                                   *)
(***************************************************************************)
NoVitals == [bpm |-> 0, confidence |-> 0, method |-> "none", irregularity |-> 0,
             spO2 |-> 0]

completeScanningAlwaysEmits(currentMethod, ppgResult, accelResult, spO2Result) ==
  [emitted |-> TRUE, toast |-> "Vital Signs Captured",
   vitals |-> [bpm |-> IF ppgResult.ok THEN ppgResult.bpm ELSE 72,
               confidence |-> ppgResult.confidence, method |-> "ppg",
               irregularity |-> ppgResult.irregularity, spO2 |-> 98]]
completeScanning(currentMethod, ppgResult, accelResult, spO2Result) ==
  LET useAccel == ~ppgResult.ok /\ currentMethod = "accelerometer"
      heartRateResult == IF useAccel THEN accelResult ELSE ppgResult
  IN IF heartRateResult.ok
     THEN [emitted |-> TRUE, toast |-> "Vital Signs Captured",
           vitals |-> [bpm |-> heartRateResult.bpm,
                       confidence |-> heartRateResult.confidence,
                       method |-> IF useAccel THEN "accelerometer" ELSE "ppg",
                       irregularity |-> heartRateResult.irregularity,
                       spO2 |-> IF spO2Result.ok /\ ~spO2Result.nan
                                THEN spO2Result.percentage ELSE 98]]
     ELSE [emitted |-> FALSE, toast |-> "Scan Failed", vitals |-> NoVitals]

(***************************************************************************)
(* unnamed/part_001 (second component, lines 889-1939): PPGProcessor and   *)
(* AudioProcessor of the progress/analysis effect.                         *)
(***************************************************************************)
\* rawPct: Math.round(100 * (snr * 0.3 + stability * 0.3 + coverage * 0.2 + peakQuality * 0.2))
processHeartRateV2(n, good, peaks, rawPct) ==
  IF n < minSamplesV2 THEN NoResult
  ELSE IF getFingerCoverage(n, good) * 10 < 7 * CoverageWindow THEN NoResult
  ELSE IF Len(peaks) < 4 THEN NoResult
  ELSE LET v == validateIntervals(calculateIntervals(peaks))
       IN IF Len(v.cleanIntervals) < 3 THEN NoResult
          ELSE LET bpm == PlainBpm(v.cleanIntervals)
               IN IF bpm < 40 \/ bpm > 200 THEN NoResult
                  ELSE HrResult(bpm, Min(rawPct, 100), v.irregularityPct)

audioProcessHeartRate(n, peaks) ==
  IF n < AudioMinSamplesV2 THEN NoResult
  ELSE IF Len(peaks) < 4 THEN NoResult
  ELSE LET bpm == PlainBpm(calculateIntervals(peaks))
       IN IF bpm < 40 \/ bpm > 200 THEN NoResult
          ELSE [ok |-> TRUE, bpm |-> bpm,
                confidence |-> Min(Len(peaks) * 10, 90),
                irregularity |-> -1]

ConcordantWithinHalf(hrResult, audioResult) ==
  audioResult.ok /\ 2 * Abs(hrResult.bpm - audioResult.bpm) <= ConcordanceBpm
\* "audioResult && Math.abs(hrResult.bpm - audioResult.bpm) <= 8"
Concordant(hrResult, audioResult) ==
  audioResult.ok /\ Abs(hrResult.bpm - audioResult.bpm) <= ConcordanceBpm
\* The body of "if (newProgress >= 100)": what the effect reports.
analyzeV2(hrResult, audioResult, spO2Result) ==
  IF ~hrResult.ok THEN [emitted |-> FALSE, toast |-> "none", vitals |-> NoVitals]
  ELSE LET combine == Concordant(hrResult, audioResult)
           audio == ~combine /\ audioResult.ok
                    /\ hrResult.confidence < PpgFallbackConfidence
       IN [emitted |-> TRUE, toast |-> "none",
           vitals |->
             [bpm |-> IF combine THEN RoundDiv(hrResult.bpm + audioResult.bpm, 2)
                      ELSE IF audio THEN audioResult.bpm ELSE hrResult.bpm,
              confidence |-> IF combine
                             THEN Max(hrResult.confidence, audioResult.confidence)
                             ELSE IF audio THEN audioResult.confidence
                                  ELSE hrResult.confidence,
              method |-> IF combine THEN "combined"
                         ELSE IF audio THEN "audio" ELSE "ppg",
              irregularity |-> hrResult.irregularity,
              spO2 |-> IF spO2Result.ok /\ ~spO2Result.nan
                       THEN spO2Result.percentage ELSE 98]]

(***************************************************************************)
(* HeartRateScanner.processHeartRateData (HeartRateScanner.tsx).  peaks is *)
(* the list of local maxima of the smoothed samples above the threshold.   *)
(***************************************************************************)
\* Math.round((signalQuality + consistency) / 2), with
\* consistency = Math.max(0, 100 - (std / avgInterval) * 100)
HrsConfidence(signalQuality, intervals) ==
  LET s == SumSeq(intervals)
      v == 10000 * ScaledVariance(intervals)
      root == ISqrt(v)
      ceilRoot == IF root * root = v THEN root ELSE root + 1    \* ceil(100 * n * std)
  IN IF ceilRoot >= 100 * s THEN (signalQuality + 1) \div 2
     ELSE ((signalQuality + 101) * s - ceilRoot) \div (2 * s)

processHeartRateData(n, peaks, signalQuality, method) ==
  IF n < HrsMinSamples
  THEN [emitted |-> FALSE, toast |-> "Insufficient Data", vitals |-> NoVitals]
  ELSE IF Len(peaks) < 3
  THEN [emitted |-> FALSE, toast |-> "No Heartbeat Detected", vitals |-> NoVitals]
  ELSE LET intervals == calculateIntervals(peaks)
           bpm == PlainBpm(intervals)
       IN IF bpm < 40 \/ bpm > 200
          THEN [emitted |-> FALSE, toast |-> "Invalid Reading", vitals |-> NoVitals]
          ELSE [emitted |-> TRUE, toast |-> "Heart Rate Reading Complete",
                vitals |-> [bpm |-> bpm,
                            confidence |-> HrsConfidence(signalQuality, intervals),
                            method |-> method, irregularity |-> -1, spO2 |-> 0]]

(***************************************************************************)
(* The signal path of PPGProcessor.processHeartRate: detrending, band-pass *)
(* filter and peak detection.  The detrending and the filters are computed *)
(* in exact rationals [num, den] with den > 0; the peak detector compares  *)
(* values of one signal with each other and with its local mean and        *)
(* standard deviation, so it is computed on an integer multiple of the     *)
(* signal.  The code's signal[i] (zero-based) is At(signal, i).            *)
(***************************************************************************)
RECURSIVE Gcd(_, _)
Gcd(a, b) == IF b = 0 THEN a ELSE Gcd(b, a % b)

Rat(n, d) == LET g == Gcd(Abs(n), d) IN [num |-> n \div g, den |-> d \div g]
RatOf(x) == [num |-> x, den |-> 1]
RatAdd(p, q) ==
  IF p.den = q.den THEN Rat(p.num + q.num, p.den)
  ELSE Rat(p.num * q.den + q.num * p.den, p.den * q.den)
RatSub(p, q) == RatAdd(p, [num |-> 0 - q.num, den |-> q.den])
\* p * a / b, for b > 0
RatTimes(p, a, b) == Rat(p.num * a, p.den * b)

At(signal, i) == signal[i + 1]

\* The loops over a range of indices are unfolded by halving the range:
\* the steps are taken in the code's order, lo first.  Forced(x) has the
\* first half evaluated before the second half starts.
Forced(x) == x = x

\* the sum, and the sum of squares, over signal.slice(a, b)
RECURSIVE SliceSum(_, _, _)
SliceSum(signal, a, b) ==
  IF a >= b THEN 0
  ELSE IF b = a + 1 THEN At(signal, a)
  ELSE SliceSum(signal, a, (a + b) \div 2) + SliceSum(signal, (a + b) \div 2, b)
RECURSIVE SliceSumSq(_, _, _)
SliceSumSq(signal, a, b) ==
  IF a >= b THEN 0
  ELSE IF b = a + 1 THEN At(signal, a) * At(signal, a)
  ELSE SliceSumSq(signal, a, (a + b) \div 2) + SliceSumSq(signal, (a + b) \div 2, b)
RECURSIVE RatSliceSum(_, _, _)
RatSliceSum(signal, a, b) ==
  IF a >= b THEN RatOf(0)
  ELSE IF b = a + 1 THEN At(signal, a)
  ELSE RatAdd(RatSliceSum(signal, a, (a + b) \div 2),
              RatSliceSum(signal, (a + b) \div 2, b))

\* redChannel.map(val => val - mean)
meanDetrend(redChannel) ==
  LET total == SliceSum(redChannel, 0, Len(redChannel))
  IN [i \in 1..Len(redChannel) |->
        Rat(Len(redChannel) * redChannel[i] - total, Len(redChannel))]

\* Math.floor(sampleRate * 2)
DetrendWindow == 60

\* detrended[i] -= localMean * 0.3, in place: later windows see the
\* entries already corrected.
detrendAt(detrended, i) ==
  LET start == Max(0, i - DetrendWindow)
      end == Min(Len(detrended), i + DetrendWindow)
      localMean == RatTimes(RatSliceSum(detrended, start, end), 1, end - start)
  IN [detrended EXCEPT ![i + 1] = RatSub(@, RatTimes(localMean, 3, 10))]

\* the loop for i in lo..hi-1
RECURSIVE movingAverageDetrend(_, _, _)
movingAverageDetrend(detrended, lo, hi) ==
  IF lo >= hi THEN detrended
  ELSE IF hi = lo + 1 THEN detrendAt(detrended, lo)
  ELSE LET firstHalf == movingAverageDetrend(detrended, lo, (lo + hi) \div 2)
       IN IF Forced(firstHalf)
          THEN movingAverageDetrend(firstHalf, (lo + hi) \div 2, hi)
          ELSE firstHalf

\* result[i] = alpha * (result[i-1] + signal[i] - signal[i-1]), alpha = an / ad
highPassAt(signal, result, i, an, ad) ==
  Append(result, RatTimes(RatAdd(At(result, i - 1),
                                 RatSub(At(signal, i), At(signal, i - 1))),
                          an, ad))
RECURSIVE highPassFrom(_, _, _, _, _, _)
highPassFrom(signal, result, lo, hi, an, ad) ==
  IF lo >= hi THEN result
  ELSE IF hi = lo + 1 THEN highPassAt(signal, result, lo, an, ad)
  ELSE LET firstHalf == highPassFrom(signal, result, lo, (lo + hi) \div 2, an, ad)
       IN IF Forced(firstHalf)
          THEN highPassFrom(signal, firstHalf, (lo + hi) \div 2, hi, an, ad)
          ELSE firstHalf
highPassFilter(signal, an, ad) ==
  IF signal = <<>> THEN <<>>
  ELSE highPassFrom(signal, <<signal[1]>>, 1, Len(signal), an, ad)

\* result[i] = alpha * signal[i] + (1 - alpha) * result[i-1], alpha = an / ad
lowPassAt(signal, result, i, an, ad) ==
  Append(result, RatAdd(RatTimes(At(signal, i), an, ad),
                        RatTimes(At(result, i - 1), ad - an, ad)))
RECURSIVE lowPassFrom(_, _, _, _, _, _)
lowPassFrom(signal, result, lo, hi, an, ad) ==
  IF lo >= hi THEN result
  ELSE IF hi = lo + 1 THEN lowPassAt(signal, result, lo, an, ad)
  ELSE LET firstHalf == lowPassFrom(signal, result, lo, (lo + hi) \div 2, an, ad)
       IN IF Forced(firstHalf)
          THEN lowPassFrom(signal, firstHalf, (lo + hi) \div 2, hi, an, ad)
          ELSE firstHalf
lowPassFilter(signal, an, ad) ==
  IF signal = <<>> THEN <<>>
  ELSE lowPassFrom(signal, <<signal[1]>>, 1, Len(signal), an, ad)

\* The cut-offs are given in tenths of a hertz; nyquist = sampleRate / 2.
butterworthBandpass(signal, lowCut, highCut) ==
  lowPassFilter(highPassFilter(signal, 2 * lowCut, 10 * sampleRate),
                2 * highCut, 10 * sampleRate)

\* Steps 1 and 2 of processHeartRate: the filtered red channel.
filteredRed(redChannel) ==
  butterworthBandpass(
    movingAverageDetrend(meanDetrend(redChannel), 0, Len(redChannel)), 8, 35)

Lcm(a, b) == (a \div Gcd(a, b)) * b
\* the common denominator of signal.slice(a, b)
RECURSIVE CommonDenominator(_, _, _)
CommonDenominator(signal, a, b) ==
  IF a >= b THEN 1
  ELSE IF b = a + 1 THEN At(signal, a).den
  ELSE Lcm(CommonDenominator(signal, a, (a + b) \div 2),
           CommonDenominator(signal, (a + b) \div 2, b))
\* The signal times the common denominator of its values.
IntegerMultiple(signal) ==
  LET cd == CommonDenominator(signal, 0, Len(signal))
  IN [i \in 1..Len(signal) |-> signal[i].num * (cd \div signal[i].den)]

\* Math.floor(sampleRate * 0.4)
PeakWindowSize == 12
RefractorySamples == 18

isLocalMax(signal, i) ==
  \A k \in 1..3 : At(signal, i) > At(signal, i - k) /\ At(signal, i) > At(signal, i + k)

\* current > localMean + localStd * 0.6 over the local window of k values
\* with sum s and sum of squares q: k * current - s > 0.6 * sqrt(k * q - s * s)
aboveThreshold(signal, i) ==
  LET start == Max(0, i - PeakWindowSize)
      end == Min(Len(signal), i + PeakWindowSize)
      k == end - start
      s == SliceSum(signal, start, end)
      q == SliceSumSq(signal, start, end)
      lead == k * At(signal, i) - s
  IN lead > 0 /\ 25 * lead * lead > 9 * (k * q - s * s)

\* Math.abs(current) > Math.abs(localMean) * 0.1
signalStrength(signal, i) ==
  LET start == Max(0, i - PeakWindowSize)
      end == Min(Len(signal), i + PeakWindowSize)
  IN 10 * (end - start) * Abs(At(signal, i)) > Abs(SliceSum(signal, start, end))

minDistanceAlways(peaks, i) == TRUE
minDistance(peaks, i) ==
  peaks = <<>> \/ i - peaks[Len(peaks)] > RefractorySamples

PeakAcceptedByDistance(signal, i, peaks) == minDistance(peaks, i)
PeakAccepted(signal, i, peaks) ==
  /\ minDistance(peaks, i)
  /\ isLocalMax(signal, i) /\ aboveThreshold(signal, i)
  /\ signalStrength(signal, i)

\* the loop for i in lo..hi-1
RECURSIVE ScanForPeaks(_, _, _, _)
ScanForPeaks(signal, lo, hi, peaks) ==
  IF lo >= hi THEN peaks
  ELSE IF hi = lo + 1
       THEN IF PeakAccepted(signal, lo, peaks) THEN Append(peaks, lo) ELSE peaks
  ELSE LET firstHalf == ScanForPeaks(signal, lo, (lo + hi) \div 2, peaks)
       IN IF Forced(firstHalf)
          THEN ScanForPeaks(signal, (lo + hi) \div 2, hi, firstHalf)
          ELSE firstHalf

findAdaptivePeaks(signal) == ScanForPeaks(signal, 3, Len(signal) - 3, <<>>)

(***************************************************************************)
(* SpecEst: the estimators applied to bounded inputs.  estIn is the data   *)
(* an estimator finds in its window when it is called, estOut what the     *)
(* caller gets back and hands to the host callback.                        *)
(***************************************************************************)
VARIABLES estIn, estOut

\* State of the MedicalVitalScanner component (MedicalVitalScanner.tsx)
VARIABLES isMobile, isScanning, scanPhase, ppgSamples, kalmanFilterRef,
          audioAnalyser, audioIsProcessing, audioSamples, audioLoops,
          motionListeners, motionDetected, pc, scanNo, scanTimeoutRef,
          timers, resetTimers, cancelled, emitted, lastToast, ran,
          frameLoops, animationFrameRef, framesDelivered

\* State of the earlier MedicalVitalScanner of unnamed/part_001 (lines 889-1939)
VARIABLES v2IsScanning, v2Progress, v2FingerDetected, v2PpgSamples,
          v2AudioAnalyser, v2AudioIsProcessing, v2AudioSamples, v2AudioLoops,
          v2FrameLoop, v2Pc, v2ScanNo, v2Emitted, v2LastToast

\* State of one PPGProcessor and of the frame handler that feeds it
VARIABLES scene, samples, pushed, coverage, rtMeasured, rtUpdates,
          frameCount, fallbackMethod, lowFrames

\* Arguments and result of one call of a helper function
VARIABLES fnIn, fnOut

estVars == <<estIn, estOut>>
fnVars == <<fnIn, fnOut>>
winVars == <<scene, samples, pushed, coverage, rtMeasured, rtUpdates,
             frameCount, fallbackMethod, lowFrames>>
v2Vars == <<v2IsScanning, v2Progress, v2FingerDetected, v2PpgSamples,
            v2AudioAnalyser, v2AudioIsProcessing, v2AudioSamples, v2AudioLoops,
            v2FrameLoop, v2Pc, v2ScanNo, v2Emitted, v2LastToast>>
mvsVars == <<isMobile, isScanning, scanPhase, ppgSamples, kalmanFilterRef,
             audioAnalyser, audioIsProcessing, audioSamples, audioLoops,
             motionListeners, motionDetected, pc, scanNo, scanTimeoutRef,
             timers, resetTimers, cancelled, emitted, lastToast, ran,
             frameLoops, animationFrameRef, framesDelivered>>
camVars == <<frameLoops, animationFrameRef, framesDelivered>>
vars == <<estVars, mvsVars, v2Vars, winVars, fnVars>>

RECURSIVE SeqsUpTo(_, _)
SeqsUpTo(S, k) ==
  IF k = 0 THEN {<<>>}
  ELSE LET shorter == SeqsUpTo(S, k - 1)
       IN shorter \cup {Append(s, x) : s \in {t \in shorter : Len(t) = k - 1}, x \in S}
UniformSeq(d, k) == [i \in 1..k |-> d]
\* Peak indices whose successive differences are the given intervals.
RECURSIVE PeaksFrom(_, _)
PeaksFrom(first, intervals) ==
  IF intervals = <<>> THEN <<first>>
  ELSE <<first>> \o PeaksFrom(first + Head(intervals), Tail(intervals))

FirstPeak == 5
PpgIntervalValues == {30, 52, 53}
AccelIntervalValues == {16, 45, 46}
V2PpgIntervalValues == {19, 20, 21, 22, 30, 45, 46}
V2AudioIntervalValues == {16, 19, 20, 21, 22, 30, 45, 46}
HrsIntervalValues == {8, 9, 45, 46}
HrsMaxFrames == 150
AcValues == {0, 1, 10, 50, 100, 200, 500}
DcValues == {1000, 2000}
RandomTenths == {-10, -5, 0, 5, 9}

\* The final estimate of a session: the vital signs reported and the SpO2
\* estimate behind them.
NoEstimate == [vitals |-> NoVitals, spO2 |-> NoSpO2]

NoInput ==
  [kind |-> "none", method |-> "none", n |-> 0, good |-> 0, iv |-> <<>>, pct |-> 0,
   n2 |-> 0, iv2 |-> <<>>, redAC |-> 0, redDC |-> 0, irAC |-> 0, irDC |-> 0, rnd10 |-> 0,
   signal |-> <<>>, period |-> 0]
NoOutput ==
  [done |-> FALSE, emitted |-> FALSE, toast |-> "none", vitals |-> NoVitals,
   hr |-> NoResult, second |-> NoResult, spO2 |-> NoSpO2, peaks |-> <<>>,
   clean |-> <<>>, replayed |-> FALSE, replay |-> NoEstimate]

ScanInputs ==
  {[NoInput EXCEPT !.kind = "scan", !.method = m, !.n = w[1], !.good = w[2],
                   !.iv = iv, !.pct = pct, !.n2 = a[1], !.iv2 = UniformSeq(a[3], a[2]),
                   !.redAC = ac, !.redDC = 1000, !.irAC = 100, !.irDC = 1000] :
     m \in {"ppg", "accelerometer"},
     w \in {<<minSamples - 1, 30>>, <<minSamples, 17>>, <<minSamples, 18>>, <<windowSize, 30>>},
     iv \in SeqsUpTo(PpgIntervalValues, MaxIntervals),
     pct \in {40, 97, 110},
     a \in {<<AccelMinSamples - 1, 7, 16>>, <<AccelMinSamples, 6, 16>>,
            <<AccelMinSamples, 7, 16>>, <<AccelMinSamples, 7, 45>>,
            <<AccelMinSamples, 7, 46>>},
     ac \in {0, 100}}
V2Inputs ==
  {[NoInput EXCEPT !.kind = "v2", !.n = w[1], !.good = w[2],
                   !.iv = UniformSeq(d1, k1), !.pct = pct,
                   !.n2 = n2, !.iv2 = UniformSeq(d2, k2),
                   !.redAC = 100, !.redDC = 1000, !.irAC = 100, !.irDC = 1000] :
     w \in {<<minSamplesV2 - 1, 30>>, <<minSamplesV2, 20>>, <<minSamplesV2, 21>>},
     d1 \in V2PpgIntervalValues, k1 \in {2, 3},
     pct \in {50, 69, 70, 95, 120},
     n2 \in {AudioMinSamplesV2 - 1, AudioMinSamplesV2},
     d2 \in V2AudioIntervalValues, k2 \in {2, 3, 8}}
HrsInputs ==
  {[NoInput EXCEPT !.kind = "hrs", !.method = m, !.n = n, !.iv = iv, !.pct = sq] :
     m \in {"camera", "audio"},
     n \in {HrsMinSamples - 1, HrsMaxFrames},
     iv \in {s \in SeqsUpTo(HrsIntervalValues, MaxIntervals) :
               FirstPeak + SumSeq(s) < HrsMaxFrames - 2},
     sq \in {0, 60, 100}}
SpO2Inputs(kind, rnds) ==
  {[NoInput EXCEPT !.kind = kind, !.n = w[1], !.good = w[2], !.pct = 80,
                   !.redAC = rac, !.redDC = rdc, !.irAC = iac, !.irDC = idc,
                   !.rnd10 = rnd] :
     w \in {<<minSamplesV2 - 1, 30>>, <<minSamples, 20>>, <<minSamples, 21>>},
     rac \in AcValues, rdc \in DcValues, iac \in AcValues, idc \in DcValues \cup {0},
     rnd \in rnds}
EstInputs ==
  ScanInputs \cup V2Inputs \cup HrsInputs
    \cup SpO2Inputs("spo2", {0}) \cup SpO2Inputs("spo2v1", RandomTenths)

InputSpO2(in) ==
  estimateSpO2(in.n, in.good, in.redAC, in.redDC, in.irAC, in.irDC, in.pct)

KalmanInit == [x |-> 0, p |-> 1000]
Scans == 1..MaxScans
NotRun == [kind |-> "none", scan |-> 0]

\* The component as mounted, before any click.
MvsMounted ==
  /\ isScanning = FALSE /\ scanPhase = "setup"
  /\ ppgSamples = 0 /\ kalmanFilterRef = KalmanInit
  /\ audioAnalyser = FALSE /\ audioIsProcessing = FALSE
  /\ audioSamples = 0 /\ audioLoops = {}
  /\ motionListeners = {} /\ motionDetected = FALSE
  /\ pc = [s \in Scans |-> "idle"] /\ scanNo = 0
  /\ scanTimeoutRef = 0 /\ timers = {} /\ resetTimers = {}
  /\ cancelled = {} /\ emitted = {} /\ lastToast = "none" /\ ran = NotRun
  /\ frameLoops = {} /\ animationFrameRef = 0 /\ framesDelivered = 0

\* The part_001 component as mounted, before any click.
V2Mounted ==
  /\ v2IsScanning = FALSE /\ v2Progress = 0 /\ v2FingerDetected = FALSE
  /\ v2PpgSamples = 0 /\ v2AudioAnalyser = FALSE /\ v2AudioIsProcessing = FALSE
  /\ v2AudioSamples = 0 /\ v2AudioLoops = 0 /\ v2FrameLoop = FALSE
  /\ v2Pc = [s \in Scans |-> "idle"] /\ v2ScanNo = 0
  /\ v2Emitted = 0 /\ v2LastToast = "none"

\* No helper function called yet.
NoFnInput ==
  [kind |-> "none", r1 |-> 0, r2 |-> 0, r |-> 0, g |-> 0, b |-> 0,
   brightness |-> 0, coverage |-> 0, bpm |-> 0, irregularity |-> 0,
   redValues |-> <<>>, age |-> 0]
NoFnOutput ==
  [done |-> FALSE, first |-> 0, second |-> 0, firstPct |-> 0, secondPct |-> 0,
   score |-> 0, quality |-> "none", issues |-> <<>>, interpretation |-> "none",
   riskLevel |-> "none", displayed |-> FALSE, computed |-> 0, shown |-> 0]
FnMounted == fnIn = NoFnInput /\ fnOut = NoFnOutput

\* A PPGProcessor as constructed, before any frame.
NoScene == [first |-> "ambient", second |-> "ambient", switchAt |-> 0]
NoRealtimeBpm == [ok |-> FALSE, bpm |-> 0]
WinMounted ==
  /\ scene = NoScene /\ samples = <<>> /\ pushed = 0
  /\ coverage = 0 /\ rtMeasured = NoRealtimeBpm /\ rtUpdates = 0
  /\ frameCount = 0 /\ fallbackMethod = "none" /\ lowFrames = 0

InitEst ==
  /\ estIn \in EstInputs
  /\ estOut = NoOutput
  /\ isMobile = TRUE /\ MvsMounted /\ V2Mounted /\ WinMounted /\ FnMounted

RunCompleteScanning ==
  /\ estIn.kind = "scan" /\ ~estOut.done
  /\ LET hr == processHeartRate(estIn.n, estIn.good, PeaksFrom(FirstPeak, estIn.iv), estIn.pct)
         accel == accelProcessHeartRate(estIn.n2, PeaksFrom(FirstPeak, estIn.iv2))
         sp == InputSpO2(estIn)
         out == completeScanning(estIn.method, hr, accel, sp)
     IN estOut' = [done |-> TRUE, emitted |-> out.emitted, toast |-> out.toast,
                   vitals |-> out.vitals, hr |-> hr, second |-> accel, spO2 |-> sp,
                   peaks |-> <<>>, clean |-> <<>>,
                   replayed |-> FALSE, replay |-> NoEstimate]
  /\ UNCHANGED <<estIn, mvsVars, v2Vars, winVars, fnVars>>

RunAnalysisV2 ==
  /\ estIn.kind = "v2" /\ ~estOut.done
  /\ LET hr == processHeartRateV2(estIn.n, estIn.good, PeaksFrom(FirstPeak, estIn.iv), estIn.pct)
         audio == audioProcessHeartRate(estIn.n2, PeaksFrom(FirstPeak, estIn.iv2))
         sp == InputSpO2(estIn)
         out == analyzeV2(hr, audio, sp)
     IN estOut' = [done |-> TRUE, emitted |-> out.emitted, toast |-> out.toast,
                   vitals |-> out.vitals, hr |-> hr, second |-> audio, spO2 |-> sp,
                   peaks |-> <<>>, clean |-> <<>>,
                   replayed |-> FALSE, replay |-> NoEstimate]
  /\ UNCHANGED <<estIn, mvsVars, v2Vars, winVars, fnVars>>

RunProcessHeartRateData ==
  /\ estIn.kind = "hrs" /\ ~estOut.done
  /\ LET out == processHeartRateData(estIn.n, PeaksFrom(FirstPeak, estIn.iv),
                                     estIn.pct, estIn.method)
     IN estOut' = [NoOutput EXCEPT !.done = TRUE, !.emitted = out.emitted,
                                   !.toast = out.toast, !.vitals = out.vitals]
  /\ UNCHANGED <<estIn, mvsVars, v2Vars, winVars, fnVars>>

RunEstimateSpO2 ==
  /\ estIn.kind = "spo2" /\ ~estOut.done
  /\ estOut' = [NoOutput EXCEPT !.done = TRUE, !.spO2 = InputSpO2(estIn)]
  /\ UNCHANGED <<estIn, mvsVars, v2Vars, winVars, fnVars>>

RunEstimateSpO2V1 ==
  /\ estIn.kind = "spo2v1" /\ ~estOut.done
  /\ estOut' = [NoOutput EXCEPT !.done = TRUE,
                  !.spO2 = estimateSpO2V1(estIn.n, estIn.good, estIn.redAC, estIn.redDC,
                                          estIn.irAC, estIn.irDC, estIn.rnd10)]
  /\ UNCHANGED <<estIn, mvsVars, v2Vars, winVars, fnVars>>

\* The final estimate of a fresh session fed the samples of input in; rnd
\* is what Math.random() returns to the earlier estimateSpO2.
SessionEstimate(in, rnd) ==
  CASE in.kind = "scan" ->
         LET hr == processHeartRate(in.n, in.good, PeaksFrom(FirstPeak, in.iv), in.pct)
             accel == accelProcessHeartRate(in.n2, PeaksFrom(FirstPeak, in.iv2))
             sp == InputSpO2(in)
         IN [vitals |-> completeScanning(in.method, hr, accel, sp).vitals, spO2 |-> sp]
    [] in.kind = "spo2" -> [vitals |-> NoVitals, spO2 |-> InputSpO2(in)]
    [] OTHER ->
         [vitals |-> NoVitals,
          spO2 |-> estimateSpO2V1(in.n, in.good, in.redAC, in.redDC,
                                  in.irAC, in.irDC, rnd)]

\* A second fresh session is fed the same samples.
ReplaySession ==
  /\ estIn.kind \in {"scan", "spo2", "spo2v1"}
  /\ estOut.done /\ ~estOut.replayed
  /\ \E rnd \in RandomTenths :
       estOut' = [estOut EXCEPT !.replayed = TRUE,
                                !.replay = SessionEstimate(estIn, rnd)]
  /\ UNCHANGED <<estIn, mvsVars, v2Vars, winVars, fnVars>>

NextEst ==
  \/ ReplaySession
  \/ RunCompleteScanning
  \/ RunAnalysisV2
  \/ RunProcessHeartRateData
  \/ RunEstimateSpO2
  \/ RunEstimateSpO2V1

SpecEst == InitEst /\ [][NextEst]_vars

\* C1: every heart rate handed to onVitalSigns / onReadingComplete is an
\* integer in [35, 220]; a computed BPM outside the estimator's range gives
\* no result and nothing is emitted.
C1_EmittedBpmInRange ==
  /\ estOut.emitted => estOut.vitals.bpm \in 35..220
  /\ estOut.hr.ok => estOut.hr.bpm \in 35..220
  /\ (estOut.done /\ estIn.kind = "scan" /\ estIn.method = "ppg"
        /\ Len(validateIntervals(estIn.iv).cleanIntervals) >= 2
        /\ WeightedBpm(validateIntervals(estIn.iv).cleanIntervals) \notin 35..220)
     => ~estOut.hr.ok /\ ~estOut.emitted
  /\ (estOut.done /\ estIn.kind = "hrs" /\ Len(estIn.iv) >= 2
        /\ PlainBpm(estIn.iv) \notin 35..220)
     => ~estOut.emitted
C1_Witness ==
  /\ estIn.kind = "scan" /\ estOut.emitted /\ estOut.vitals.bpm = 35
C1_WitnessRejected ==
  /\ estIn.kind = "scan" /\ estOut.done /\ estIn.n = windowSize
  /\ estIn.iv = <<53, 53, 53>> /\ ~estOut.hr.ok

\* C2: every SpO2 percentage returned by estimateSpO2 is a number in
\* [70, 100], whatever the ratio of ratios.
C2_SpO2InRange ==
  (estOut.done /\ estOut.spO2.ok)
     => ~estOut.spO2.nan /\ estOut.spO2.percentage \in 70..100

\* C3: the result callback is invoked only when a heart-rate estimator
\* returned a result, and with that estimator's BPM; when every estimator
\* returns null the scan reports a failure and emits nothing.
C3_EmitsOnlyEstimates ==
  /\ (estOut.done /\ estIn.kind = "scan")
     => /\ estOut.emitted =>
             \/ estOut.hr.ok /\ estOut.vitals.bpm = estOut.hr.bpm
             \/ /\ estIn.method = "accelerometer" /\ estOut.second.ok
                /\ estOut.vitals.bpm = estOut.second.bpm
        /\ (~estOut.hr.ok /\ ~estOut.second.ok)
             => ~estOut.emitted /\ estOut.toast = "Scan Failed"
  /\ (estOut.done /\ estIn.kind = "hrs")
     => /\ estOut.emitted =>
             /\ estIn.n >= HrsMinSamples /\ Len(estIn.iv) >= 2
             /\ estOut.vitals.bpm = PlainBpm(estIn.iv)
        /\ ~estOut.emitted =>
             estOut.toast \in {"Insufficient Data", "No Heartbeat Detected", "Invalid Reading"}
C3_Witness ==
  /\ estIn.kind = "scan" /\ estOut.done
  /\ ~estOut.hr.ok /\ ~estOut.second.ok /\ estOut.toast = "Scan Failed"
  /\ estIn.n >= minSamples

\* C8: the reported heart-rate confidence is not forced up: a result whose
\* composite confidence score is below 96 is reported with a confidence
\* below 96, in particular when only two clean intervals were found.
C8_NoForcedFloor ==
  (estOut.done /\ estIn.kind = "scan" /\ estOut.hr.ok /\ estIn.pct < ConfidenceFloor)
     => estOut.hr.confidence < ConfidenceFloor

\* C9: when the optical and the acoustic estimator both return a result and
\* their BPM differ by at most 8, the final result is 'combined', carries
\* the larger confidence and a BPM between the two, inclusive.
C9_ConcordantCombined ==
  (estOut.done /\ estIn.kind = "v2" /\ estOut.hr.ok /\ estOut.second.ok
     /\ Abs(estOut.hr.bpm - estOut.second.bpm) <= 8)
  => /\ estOut.emitted
     /\ estOut.vitals.method = "combined"
     /\ estOut.vitals.confidence = Max(estOut.hr.confidence, estOut.second.confidence)
     /\ estOut.vitals.bpm >= Min(estOut.hr.bpm, estOut.second.bpm)
     /\ estOut.vitals.bpm <= Max(estOut.hr.bpm, estOut.second.bpm)
C9_Witness ==
  /\ estIn.kind = "v2" /\ estOut.hr.ok /\ estOut.second.ok
  /\ estOut.hr.bpm - estOut.second.bpm = 8
  /\ estOut.vitals.method = "combined"
  /\ estOut.second.confidence > estOut.hr.confidence

\* C10: when both estimators return a result and their BPM differ by more
\* than 8, the final result is the one of the two with the higher
\* confidence: its BPM, its confidence and its method.
C10_DiscordantPrefersHigherConfidence ==
  (estOut.done /\ estIn.kind = "v2" /\ estOut.hr.ok /\ estOut.second.ok
     /\ Abs(estOut.hr.bpm - estOut.second.bpm) > 8)
  => /\ estOut.emitted
     /\ estOut.hr.confidence > estOut.second.confidence
          => /\ estOut.vitals.method = "ppg"
             /\ estOut.vitals.bpm = estOut.hr.bpm
             /\ estOut.vitals.confidence = estOut.hr.confidence
     /\ estOut.second.confidence > estOut.hr.confidence
          => /\ estOut.vitals.method = "audio"
             /\ estOut.vitals.bpm = estOut.second.bpm
             /\ estOut.vitals.confidence = estOut.second.confidence

\* C11: the emitted vital signs carry an SpO2 percentage only if estimateSpO2
\* returned an estimate; when it returned null, or the heart rate came from
\* the motion or the acoustic method, no SpO2 value is reported.
C11_SpO2OnlyIfEstimated ==
  (estOut.done /\ estIn.kind \in {"scan", "v2"} /\ estOut.emitted)
  => /\ ~estOut.spO2.ok => estOut.vitals.spO2 \notin 1..100
     /\ estOut.vitals.method \in {"accelerometer", "audio"}
          => estOut.vitals.spO2 \notin 1..100

\* C22: replaying an identical sample sequence into two fresh sessions
\* yields the identical final estimate (BPM, confidence, irregularity and
\* SpO2): the estimator path has no randomness and reads nothing but the
\* samples.
C22_ReplayGivesSameEstimate ==
  estOut.replayed
     => estOut.replay = [vitals |-> estOut.vitals, spO2 |-> estOut.spO2]

\* C24: estimateSpO2 returns no estimate whenever the DC component or the
\* AC component of either channel (red, or blue as the infrared proxy) is
\* zero; it never divides by a zero component.
C24_NoEstimateFromZeroComponent ==
  /\ estIn.kind \in {"spo2", "spo2v1"} /\ estOut.done
  /\ (estIn.redDC = 0 \/ estIn.irDC = 0 \/ estIn.redAC = 0 \/ estIn.irAC = 0)
  => ~estOut.spO2.ok

\* C19: while the sample window holds fewer samples than minSamples,
\* processHeartRate and estimateSpO2 return no estimate, so no scan
\* completes with a result computed from a shorter window.
C19_NoEstimateFromShortWindow ==
  (estOut.done /\ estIn.kind = "scan" /\ estIn.n < minSamples)
     => /\ ~estOut.hr.ok /\ ~estOut.spO2.ok
        /\ estOut.emitted => estOut.vitals.method = "accelerometer"
C19_Witness ==
  /\ estOut.done /\ estIn.kind = "scan" /\ estIn.method = "ppg"
  /\ estIn.n = minSamples - 1 /\ estIn.good = CoverageWindow
  /\ estIn.iv = <<30, 30, 30>> /\ estIn.redAC = 100
  /\ ~estOut.hr.ok /\ ~estOut.spO2.ok /\ ~estOut.emitted


(***************************************************************************)
(* SpecSig: the signal path applied to bounded signals.  A "peaks" input   *)
(* is a signal handed to findAdaptivePeaks, a "filtered" input a filtered  *)
(* red channel from which processHeartRate continues with step 3, a "red"  *)
(* input the red channel of the window processHeartRate starts from.       *)
(***************************************************************************)
MaxGaps == 3
PulseStart == 4
PulseHeight == 5
PulseGapValues == {4, 18, 19, 30}
ConstantLevels == {-7, 0, 150}
RedLevels == {1, 150, 255}
BeatPeriods == 9..51

\* Around a median of 10: 7 and 13 lie exactly 30% away, 8 and 12 within.
ValidatedIntervalValues == {7, 8, 10, 12, 13, 20}

ConstantSignal(c, n) == [i \in 1..n |-> c]

\* Spikes of height PulseHeight over a flat baseline, the first at index
\* PulseStart and the following ones the given gaps apart.
PulseTrain(gaps) ==
  LET at == PeaksFrom(PulseStart, gaps)
      positions == {at[j] : j \in 1..Len(at)}
  IN [i \in 1..(at[Len(at)] + PulseStart + 1) |->
        IF (i - 1) \in positions THEN PulseHeight ELSE 0]

\* A triangular pulse wave with one beat every d samples and mean near 0.
Beats(d, n) ==
  [i \in 1..n |-> (d \div 4) - Abs(((i - 1) % d) - (d \div 2))]

IsConstant(signal) == \A i, j \in 1..Len(signal) : signal[i] = signal[j]

SigInputs ==
  {[NoInput EXCEPT !.kind = "peaks", !.signal = ConstantSignal(c, n), !.n = n] :
     c \in ConstantLevels, n \in {0, 1, 6, 7, 30, minSamples}}
  \cup {[NoInput EXCEPT !.kind = "peaks", !.signal = PulseTrain(g), !.iv = g,
                        !.n = Len(PulseTrain(g))] :
          g \in SeqsUpTo(PulseGapValues, MaxGaps)}
  \cup {[NoInput EXCEPT !.kind = "filtered", !.signal = Beats(d, n), !.period = d,
                        !.n = n, !.good = CoverageWindow, !.pct = 97] :
          d \in BeatPeriods, n \in {minSamples, windowSize}}
  \cup {[NoInput EXCEPT !.kind = "red", !.signal = ConstantSignal(c, n),
                        !.n = n, !.good = CoverageWindow, !.pct = 97] :
          c \in RedLevels, n \in {minSamples - 1, minSamples, windowSize}}
  \cup {[NoInput EXCEPT !.kind = "intervals", !.iv = iv] :
          iv \in SeqsUpTo(ValidatedIntervalValues, MaxIntervals + 1)}
  \cup {[NoInput EXCEPT !.kind = "peaklist", !.iv = iv, !.n = minSamples,
                        !.good = CoverageWindow, !.pct = 97] :
          iv \in SeqsUpTo(ValidatedIntervalValues, MaxIntervals + 1)}

InitSig ==
  /\ estIn \in SigInputs
  /\ estOut = NoOutput
  /\ isMobile = TRUE /\ MvsMounted /\ V2Mounted /\ WinMounted /\ FnMounted

RunFindAdaptivePeaks ==
  /\ estIn.kind = "peaks" /\ ~estOut.done
  /\ estOut' = [NoOutput EXCEPT !.done = TRUE, !.peaks = findAdaptivePeaks(estIn.signal)]
  /\ UNCHANGED <<estIn, mvsVars, v2Vars, winVars, fnVars>>

\* processHeartRate from step 3 on
RunProcessFiltered ==
  /\ estIn.kind = "filtered" /\ ~estOut.done
  /\ LET peaks == findAdaptivePeaks(estIn.signal)
     IN estOut' = [NoOutput EXCEPT !.done = TRUE, !.peaks = peaks,
                     !.hr = processHeartRate(estIn.n, estIn.good, peaks, estIn.pct)]
  /\ UNCHANGED <<estIn, mvsVars, v2Vars, winVars, fnVars>>

RunProcessHeartRate ==
  /\ estIn.kind = "red" /\ ~estOut.done
  /\ LET peaks == IF estIn.n < minSamples THEN <<>>
                  ELSE findAdaptivePeaks(IntegerMultiple(filteredRed(estIn.signal)))
     IN estOut' = [NoOutput EXCEPT !.done = TRUE, !.peaks = peaks,
                     !.hr = processHeartRate(estIn.n, estIn.good, peaks, estIn.pct)]
  /\ UNCHANGED <<estIn, mvsVars, v2Vars, winVars, fnVars>>

RunValidateIntervals ==
  /\ estIn.kind = "intervals" /\ ~estOut.done
  /\ estOut' = [NoOutput EXCEPT !.done = TRUE,
                                !.clean = validateIntervals(estIn.iv).cleanIntervals]
  /\ UNCHANGED <<estIn, mvsVars, v2Vars, winVars, fnVars>>

\* processHeartRate from step 4 on, for peaks the given intervals apart
RunProcessPeaks ==
  /\ estIn.kind = "peaklist" /\ ~estOut.done
  /\ LET peaks == PeaksFrom(FirstPeak, estIn.iv)
     IN estOut' = [NoOutput EXCEPT !.done = TRUE,
                     !.hr = processHeartRate(estIn.n, estIn.good, peaks, estIn.pct)]
  /\ UNCHANGED <<estIn, mvsVars, v2Vars, winVars, fnVars>>

NextSig ==
  \/ RunFindAdaptivePeaks
  \/ RunProcessFiltered
  \/ RunProcessHeartRate
  \/ RunValidateIntervals
  \/ RunProcessPeaks

SpecSig == InitSig /\ [][NextSig]_vars

C13_PeriodicWithinThree ==
  (estOut.done /\ estIn.kind = "filtered")
     => /\ estOut.hr.ok
        /\ Abs(estOut.hr.bpm * estIn.period - 60 * sampleRate) <= 3 * estIn.period

\* C14: the list returned by findAdaptivePeaks is strictly increasing, every
\* index in it is interior (neither the first nor the last sample), and
\* consecutive accepted peaks are at least 18 samples apart.
C14_PeaksOrderedInteriorSpaced ==
  (estOut.done /\ estIn.kind \in {"peaks", "filtered", "red"})
     => /\ \A j \in 1..Len(estOut.peaks) :
             estOut.peaks[j] > 0 /\ estOut.peaks[j] < Len(estIn.signal) - 1
        /\ \A j \in 1..(Len(estOut.peaks) - 1) :
             /\ estOut.peaks[j] < estOut.peaks[j + 1]
             /\ estOut.peaks[j + 1] - estOut.peaks[j] >= 18
C14_Witness ==
  /\ estOut.done /\ estIn.kind = "peaks"
  /\ estIn.iv = <<18, 19>> /\ estOut.peaks = <<PulseStart, PulseStart + 37>>

\* t can be obtained from s by deleting elements
RECURSIVE IsSubSeq(_, _)
IsSubSeq(t, s) ==
  IF t = <<>> THEN TRUE
  ELSE IF s = <<>> THEN FALSE
  ELSE IF Head(t) = Head(s) THEN IsSubSeq(Tail(t), Tail(s))
  ELSE IsSubSeq(t, Tail(s))

\* The intervals less than 30% of the median away from the median, and
\* those at most 30% away, in their original order.
StrictlyInBand(intervals) ==
  SelectSeq(intervals, LAMBDA x : 10 * Abs(x - MedianOf(intervals)) < 3 * MedianOf(intervals))
InBand(intervals) ==
  SelectSeq(intervals, LAMBDA x : 10 * Abs(x - MedianOf(intervals)) <= 3 * MedianOf(intervals))

\* C15: validateIntervals keeps the intervals in their original order, every
\* interval it retains differs from the median by at most 30% of the median,
\* and every interval that differs from the median by less than 30% of the
\* median is retained.
C15_RetainsTheBand ==
  (estOut.done /\ estIn.kind = "intervals" /\ estIn.iv # <<>>)
     => /\ IsSubSeq(estOut.clean, InBand(estIn.iv))
        /\ IsSubSeq(StrictlyInBand(estIn.iv), estOut.clean)

\* C15, amended: given at least 3 intervals of which at least 2 differ from
\* the median by less than 30% of the median, validateIntervals returns
\* exactly those, in their original order; otherwise it returns none.
C15_RetainsTheBandOrNothing ==
  (estOut.done /\ estIn.kind = "intervals")
     => estOut.clean =
          IF Len(estIn.iv) >= 3 /\ Len(StrictlyInBand(estIn.iv)) >= 2
          THEN StrictlyInBand(estIn.iv) ELSE <<>>
C15_Witness ==
  /\ estOut.done /\ estIn.kind = "intervals"
  /\ estIn.iv = <<10, 13, 10>> /\ estOut.clean = <<10, 10>>

\* C29: PPGProcessor.processHeartRate never returns a BPM above 95:
\* accepted peaks are more than 18 samples apart, so every clean interval is
\* at least 19 samples and round(1800 / weightedAverageInterval) is at most
\* 95.  (Peaks as findAdaptivePeaks returns them.)
C29_NeverAbove95 ==
  (estOut.done /\ estIn.kind \in {"filtered", "red"} /\ estOut.hr.ok)
     => /\ estOut.hr.bpm <= 95
        /\ \A i \in 1..Len(calculateIntervals(estOut.peaks)) :
             calculateIntervals(estOut.peaks)[i] >= RefractorySamples + 1
\* A beat every 19 samples (94.7 per minute) is reported as 95.
C29_Witness ==
  /\ estOut.done /\ estIn.kind = "filtered" /\ estIn.period = RefractorySamples + 1
  /\ estOut.hr.ok /\ estOut.hr.bpm = 95

\* The number of clean intervals interval validation leaves.
CleanCount(intervals) ==
  IF Len(intervals) < 3 THEN 0 ELSE Len(StrictlyInBand(intervals))

\* C16: processHeartRate returns no result whenever interval validation
\* leaves fewer than 2 clean intervals; every returned heart rate is
\* computed from at least 2 clean intervals.
C16_NeedsTwoCleanIntervals ==
  (estOut.done /\ estIn.kind = "peaklist")
     => /\ CleanCount(estIn.iv) < 2 => ~estOut.hr.ok
        /\ estOut.hr.ok => CleanCount(estIn.iv) >= 2
C16_Witness ==
  /\ estOut.done /\ estIn.kind = "peaklist"
  /\ estIn.iv = <<7, 10, 20>> /\ ~estOut.hr.ok
C16_WitnessTwoClean ==
  /\ estOut.done /\ estIn.kind = "peaklist"
  /\ estIn.iv = <<10, 13, 10>> /\ estOut.hr.ok /\ estOut.hr.bpm = 180


(***************************************************************************)
(* Spec: the MedicalVitalScanner component (MedicalVitalScanner.tsx).      *)
(*                                                                         *)
(* Every click on Start runs one instance of the async startScanning; pc   *)
(* is the await each instance is suspended at.  startScanning is memoised  *)
(* with an empty dependency list, so the processFrame and completeScanning *)
(* it calls are those of the first render, which closed over               *)
(* isScanning = false and currentMethod = "ppg".                           *)
(***************************************************************************)
MaxAudioSamples == 3
MaxFramesDelivered == 2
CapturedIsScanning == FALSE
CapturedCurrentMethod == "ppg"

Ran(kind, s) == [kind |-> kind, scan |-> s]

\* PPGProcessor.addSample: push, then keep the last windowSize samples
addSample(n) == Min(n + 1, windowSize)

\* processFrame as called from startScanning: returns at once unless the
\* isScanning it closed over is true, else adds one sample to the window.
processFrame(capturedIsScanning, n) ==
  IF ~capturedIsScanning THEN n ELSE addSample(n)

\* AudioProcessor.processAudio: [samples, rescheduled]
\* Whether that call ends in requestAnimationFrame(processFrame): the
\* guard at its top and the test at its end read the same captured
\* isScanning, and the callback requested is this same closure.
processFrameReschedules(capturedIsScanning) == capturedIsScanning

processAudio(processing, analyser, n) ==
  IF ~processing \/ ~analyser THEN [samples |-> n, again |-> FALSE]
  ELSE [samples |-> Min(n + 1, AudioWindowSize), again |-> TRUE]

StartScanningDesktop ==
  /\ ~isMobile /\ ~isScanning
  /\ lastToast' = "Mobile Device Required"
  /\ ran' = Ran("startScanning", 0)
  /\ UNCHANGED <<isMobile, isScanning, scanPhase, ppgSamples, kalmanFilterRef,
                 audioAnalyser, audioIsProcessing, audioSamples, audioLoops,
                 motionListeners, motionDetected, pc, scanNo, scanTimeoutRef,
                 timers, resetTimers, cancelled, emitted, estVars, v2Vars, winVars, fnVars, camVars>>

StartScanning ==
  /\ isMobile /\ ~isScanning /\ scanNo < MaxScans
  /\ scanNo' = scanNo + 1
  /\ isScanning' = TRUE
  /\ scanPhase' = "setup"
  /\ ppgSamples' = 0
  /\ pc' = [pc EXCEPT ![scanNo + 1] = "getUserMedia"]
  /\ ran' = Ran("startScanning", scanNo + 1)
  /\ UNCHANGED <<isMobile, kalmanFilterRef, audioAnalyser, audioIsProcessing,
                 audioSamples, audioLoops, motionListeners, motionDetected,
                 scanTimeoutRef, timers, resetTimers, cancelled, emitted,
                 lastToast, estVars, v2Vars, winVars, fnVars, camVars>>

GetUserMediaResolves(s) ==
  /\ pc[s] = "getUserMedia"
  /\ pc' = [pc EXCEPT ![s] = "play"]
  /\ ran' = Ran("startSequence", s)
  /\ UNCHANGED <<isMobile, isScanning, scanPhase, ppgSamples, kalmanFilterRef,
                 audioAnalyser, audioIsProcessing, audioSamples, audioLoops,
                 motionListeners, motionDetected, scanNo, scanTimeoutRef,
                 timers, resetTimers, cancelled, emitted, lastToast, estVars, v2Vars, winVars, fnVars, camVars>>

\* getUserMedia, video.play() or applyConstraints rejects: the catch block
StartFails(s) ==
  /\ pc[s] \in {"getUserMedia", "play", "torch"}
  /\ pc' = [pc EXCEPT ![s] = "failed"]
  /\ lastToast' = "Camera Access Required"
  /\ isScanning' = FALSE
  /\ ran' = Ran("startSequence", s)
  /\ UNCHANGED <<isMobile, scanPhase, ppgSamples, kalmanFilterRef,
                 audioAnalyser, audioIsProcessing, audioSamples, audioLoops,
                 motionListeners, motionDetected, scanNo, scanTimeoutRef,
                 timers, resetTimers, cancelled, emitted, estVars, v2Vars, winVars, fnVars, camVars>>

\* From setupAccelerometer() to the end of the try block.  initialize()
\* has no await of its own, so nothing runs between these statements.
BeginAcquisition(s) ==
  /\ motionListeners' = motionListeners \cup {s}
  /\ \E created \in BOOLEAN :
       /\ audioAnalyser' = (audioAnalyser \/ created)
       /\ LET a == processAudio(TRUE, audioAnalyser', audioSamples)
          IN /\ audioSamples' = a.samples
             /\ audioLoops' = IF a.again THEN audioLoops \cup {s} ELSE audioLoops
  /\ audioIsProcessing' = TRUE
  /\ scanPhase' = "scanning"
  /\ ppgSamples' = processFrame(CapturedIsScanning, ppgSamples)
  /\ frameLoops' = IF processFrameReschedules(CapturedIsScanning)
                   THEN frameLoops \cup {s} ELSE frameLoops
  /\ animationFrameRef' = IF processFrameReschedules(CapturedIsScanning)
                          THEN s ELSE animationFrameRef
  /\ framesDelivered' = 0
  /\ scanTimeoutRef' = s
  /\ timers' = timers \cup {s}
  /\ pc' = [pc EXCEPT ![s] = "acquiring"]
  /\ ran' = Ran("startSequence", s)
  /\ UNCHANGED <<isMobile, isScanning, kalmanFilterRef, motionDetected, scanNo,
                 resetTimers, cancelled, emitted, lastToast, estVars, v2Vars,
                 winVars, fnVars>>

PlayResolvesTorch(s) ==
  /\ pc[s] = "play"
  /\ pc' = [pc EXCEPT ![s] = "torch"]
  /\ ran' = Ran("startSequence", s)
  /\ UNCHANGED <<isMobile, isScanning, scanPhase, ppgSamples, kalmanFilterRef,
                 audioAnalyser, audioIsProcessing, audioSamples, audioLoops,
                 motionListeners, motionDetected, scanNo, scanTimeoutRef,
                 timers, resetTimers, cancelled, emitted, lastToast, estVars, v2Vars, winVars, fnVars, camVars>>

PlayResolvesNoTorch(s) ==
  /\ pc[s] = "play"
  /\ BeginAcquisition(s)

TorchResolves(s) ==
  /\ pc[s] = "torch"
  /\ BeginAcquisition(s)

\* The requestAnimationFrame callback "() => this.processAudio()" of scan s
AudioFrame(s) ==
  /\ s \in audioLoops
  /\ audioIsProcessing => audioSamples < MaxAudioSamples
  /\ LET a == processAudio(audioIsProcessing, audioAnalyser, audioSamples)
     IN /\ audioSamples' = a.samples
        /\ audioLoops' = IF a.again THEN audioLoops ELSE audioLoops \ {s}
        /\ ran' = Ran(IF a.again THEN "audioFrame" ELSE "audioFrameIdle", s)
  /\ UNCHANGED <<isMobile, isScanning, scanPhase, ppgSamples, kalmanFilterRef,
                 audioAnalyser, audioIsProcessing, motionListeners,
                 motionDetected, pc, scanNo, scanTimeoutRef, timers,
                 resetTimers, cancelled, emitted, lastToast, estVars, v2Vars, winVars, fnVars, camVars>>

\* The scan on screen has neither completed nor failed yet
Unfinished(s) ==
  \/ pc[s] \in {"getUserMedia", "play", "torch"}
  \/ pc[s] = "acquiring" /\ s \in timers

\* The display refreshes with a new camera frame while scan s is acquiring.
\* If a processFrame of scan s is waiting for the animation frame it runs:
\* it handles the frame and requests the next one; if none is waiting the
\* frame goes by unhandled.
CameraFrame(s) ==
  /\ pc[s] = "acquiring" /\ Unfinished(s)
  /\ framesDelivered < MaxFramesDelivered
  /\ framesDelivered' = framesDelivered + 1
  /\ ppgSamples' = IF s \in frameLoops
                   THEN processFrame(CapturedIsScanning, ppgSamples) ELSE ppgSamples
  /\ frameLoops' = IF s \in frameLoops /\ ~processFrameReschedules(CapturedIsScanning)
                   THEN frameLoops \ {s} ELSE frameLoops
  /\ ran' = Ran(IF s \in frameLoops THEN "frameLoop" ELSE "cameraFrame", s)
  /\ UNCHANGED <<isMobile, isScanning, scanPhase, kalmanFilterRef,
                 audioAnalyser, audioIsProcessing, audioSamples, audioLoops,
                 motionListeners, motionDetected, pc, scanNo, scanTimeoutRef,
                 timers, resetTimers, cancelled, emitted, lastToast,
                 animationFrameRef, estVars, v2Vars, winVars, fnVars>>

\* The devicemotion listener that setupAccelerometer added for scan s
MotionEvent(s) ==
  /\ s \in motionListeners
  /\ \E significant \in BOOLEAN : motionDetected' = significant
  /\ ran' = Ran("motionListener", s)
  /\ UNCHANGED <<isMobile, isScanning, scanPhase, ppgSamples, kalmanFilterRef,
                 audioAnalyser, audioIsProcessing, audioSamples, audioLoops,
                 motionListeners, pc, scanNo, scanTimeoutRef, timers,
                 resetTimers, cancelled, emitted, lastToast, estVars, v2Vars, winVars, fnVars, camVars>>

\* The 20 s timer of scan s fires: completeScanning.  The optical window
\* holds ppgSamples samples; with none there is no coverage and no peak.
ScanTimeout(s) ==
  /\ s \in timers
  /\ timers' = timers \ {s}
  /\ LET hr == processHeartRate(ppgSamples, 0, <<>>, 0)
         sp == estimateSpO2(ppgSamples, 0, 0, 0, 0, 0, 0)
         out == completeScanning(CapturedCurrentMethod, hr, NoResult, sp)
     IN /\ emitted' = IF out.emitted THEN emitted \cup {s} ELSE emitted
        /\ lastToast' = out.toast
  /\ scanPhase' = "complete"
  /\ resetTimers' = resetTimers \cup {s}
  /\ ran' = Ran("scanTimeout", s)
  /\ UNCHANGED <<isMobile, isScanning, ppgSamples, kalmanFilterRef,
                 audioAnalyser, audioIsProcessing, audioSamples, audioLoops,
                 motionListeners, motionDetected, pc, scanNo, scanTimeoutRef,
                 cancelled, estVars, v2Vars, winVars, fnVars, camVars>>

\* The 2 s timer set at the end of completeScanning
DelayedReset(s) ==
  /\ s \in resetTimers
  /\ resetTimers' = resetTimers \ {s}
  /\ isScanning' = FALSE
  /\ ran' = Ran("delayedReset", s)
  /\ UNCHANGED <<isMobile, scanPhase, ppgSamples, kalmanFilterRef,
                 audioAnalyser, audioIsProcessing, audioSamples, audioLoops,
                 motionListeners, motionDetected, pc, scanNo, scanTimeoutRef,
                 timers, cancelled, emitted, lastToast, estVars, v2Vars, winVars, fnVars, camVars>>

StopScanning ==
  /\ isScanning
  /\ isScanning' = FALSE
  /\ scanPhase' = "setup"
  /\ timers' = timers \ {scanTimeoutRef}
  /\ audioIsProcessing' = FALSE
  /\ cancelled' = IF Unfinished(scanNo) THEN cancelled \cup {scanNo} ELSE cancelled
  /\ frameLoops' = frameLoops \ {animationFrameRef}
  /\ ran' = Ran("stopScanning", scanNo)
  /\ UNCHANGED <<isMobile, ppgSamples, kalmanFilterRef, audioAnalyser,
                 audioSamples, audioLoops, motionListeners, motionDetected,
                 pc, scanNo, scanTimeoutRef, resetTimers, emitted, lastToast,
                 animationFrameRef, framesDelivered, estVars, v2Vars, winVars,
                 fnVars>>

Init ==
  /\ isMobile \in BOOLEAN
  /\ MvsMounted /\ V2Mounted /\ WinMounted /\ FnMounted
  /\ estIn = NoInput /\ estOut = NoOutput

Next ==
  \/ StartScanningDesktop
  \/ StartScanning
  \/ StopScanning
  \/ \E s \in Scans : GetUserMediaResolves(s)
  \/ \E s \in Scans : StartFails(s)
  \/ \E s \in Scans : PlayResolvesTorch(s)
  \/ \E s \in Scans : PlayResolvesNoTorch(s)
  \/ \E s \in Scans : TorchResolves(s)
  \/ \E s \in Scans : AudioFrame(s)
  \/ \E s \in Scans : MotionEvent(s)
  \/ \E s \in Scans : CameraFrame(s)
  \/ \E s \in Scans : ScanTimeout(s)
  \/ \E s \in Scans : DelayedReset(s)

Spec == Init /\ [][Next]_vars


\* C5: stopScanning, from any phase, leaves the scanner idle (not
\* scanning, phase reset) and every sample buffer of the session empty.
C5_StopEmptiesBuffers ==
  ran.kind = "stopScanning"
     => /\ ~isScanning /\ scanPhase = "setup"
        /\ ppgSamples = 0 /\ audioSamples = 0

\* C6: once a scan has been cancelled none of its background work runs:
\* no continuation of its start sequence, no animation-frame callback that
\* ingests a sample, no motion listener, no timer.
BackgroundWork ==
  {"startSequence", "audioFrame", "motionListener", "scanTimeout", "delayedReset"}
C6_NoWorkAfterCancel ==
  ran.scan \in cancelled => ran.kind \notin BackgroundWork

\* C27: once startScanning has succeeded and until the scan is stopped or
\* completed, the frame loop is running: each camera frame is appended to
\* the optical sample window and processFrame reschedules itself, so the
\* window grows with the frames delivered during the scan.
C27_FrameLoopRunsWhileScanning ==
  \A s \in Scans :
    (s = scanNo /\ isScanning /\ pc[s] = "acquiring" /\ Unfinished(s))
       => /\ s \in frameLoops
          /\ ppgSamples >= Min(framesDelivered, windowSize)

\* C28: a timer scheduled by one scan never changes the state of a later
\* scan: while a scan is in progress (started and neither completed nor
\* cancelled), isScanning stays true, even if the previous scan completed
\* or was stopped shortly before the new one was started.
C28_TimerLeavesLaterScanScanning ==
  [][(/\ ran'.kind \in {"scanTimeout", "delayedReset"}
      /\ scanNo \in Scans /\ ran'.scan < scanNo
      /\ Unfinished(scanNo) /\ scanNo \notin cancelled /\ isScanning)
        => isScanning']_vars

\* C7: at the step in which a scan starts acquiring, the Kalman state and
\* every sample window it finds equal their initial values.
C7_FreshStateAtAcquisition ==
  [][\A s \in Scans :
       (pc[s] # "acquiring" /\ pc'[s] = "acquiring")
          => /\ kalmanFilterRef = KalmanInit
             /\ ppgSamples = 0 /\ audioSamples = 0]_vars


(***************************************************************************)
(* SpecV2: the MedicalVitalScanner of unnamed/part_001 (lines 889-1939):   *)
(* the progress/analysis effect, the frame effect, startScanning and       *)
(* stopScanning.  v2Progress counts half percents, so one tick adds 3.     *)
(* One V2AnimationFrames step is FramesPerStep consecutive animation       *)
(* frames (five seconds of video at 30 frames per second); clicks, ticks   *)
(* and promise settlements are interleaved between such runs of frames.    *)
(***************************************************************************)
FramesPerStep == 150
ProgressStep == 3
ProgressFull == 200
windowSizeAudioV2 == 450
V2PeakChoices == {<<>>, <<20, 20, 20>>, <<46, 46, 46>>}
V2AudioPeakChoices == {<<>>, <<22, 22, 22>>}

V2StartScanning ==
  /\ ~v2IsScanning /\ v2ScanNo < MaxScans
  /\ v2ScanNo' = v2ScanNo + 1
  /\ v2Pc' = [v2Pc EXCEPT ![v2ScanNo + 1] = "camera"]
  /\ UNCHANGED <<v2IsScanning, v2Progress, v2FingerDetected, v2PpgSamples,
                 v2AudioAnalyser, v2AudioIsProcessing, v2AudioSamples,
                 v2AudioLoops, v2FrameLoop, v2Emitted, v2LastToast,
                 estVars, mvsVars, winVars, fnVars>>

\* getUserMedia resolved and applyConstraints settled (its rejection is
\* caught on the spot); initialize() now waits for the microphone.
V2CameraResolves(s) ==
  /\ v2Pc[s] = "camera"
  /\ v2Pc' = [v2Pc EXCEPT ![s] = "audio"]
  /\ UNCHANGED <<v2IsScanning, v2Progress, v2FingerDetected, v2PpgSamples,
                 v2AudioAnalyser, v2AudioIsProcessing, v2AudioSamples,
                 v2AudioLoops, v2FrameLoop, v2ScanNo, v2Emitted, v2LastToast,
                 estVars, mvsVars, winVars, fnVars>>

V2CameraRejects(s) ==
  /\ v2Pc[s] = "camera"
  /\ v2Pc' = [v2Pc EXCEPT ![s] = "failed"]
  /\ v2LastToast' = "Permission Required"
  /\ UNCHANGED <<v2IsScanning, v2Progress, v2FingerDetected, v2PpgSamples,
                 v2AudioAnalyser, v2AudioIsProcessing, v2AudioSamples,
                 v2AudioLoops, v2FrameLoop, v2ScanNo, v2Emitted,
                 estVars, mvsVars, winVars, fnVars>>

\* initialize() settles with audioSuccess; the rest of startScanning and
\* the frame effect that the new isScanning triggers.
V2AudioInitSettles(s) ==
  /\ v2Pc[s] = "audio"
  /\ v2Pc' = [v2Pc EXCEPT ![s] = "done"]
  /\ \E audioSuccess \in BOOLEAN :
       /\ v2AudioAnalyser' = (v2AudioAnalyser \/ audioSuccess)
       /\ v2AudioIsProcessing' = (v2AudioIsProcessing \/ audioSuccess)
       /\ v2AudioSamples' = IF audioSuccess THEN 1 ELSE v2AudioSamples
       /\ v2AudioLoops' = IF audioSuccess THEN v2AudioLoops + 1 ELSE v2AudioLoops
  /\ v2IsScanning' = TRUE
  /\ v2Progress' = 0
  /\ \E videoReady \in BOOLEAN :
       IF ~v2IsScanning /\ videoReady
       THEN /\ v2PpgSamples' = 1
            /\ v2FrameLoop' = TRUE
            /\ v2FingerDetected' = FALSE
       ELSE /\ v2PpgSamples' = 0
            /\ UNCHANGED <<v2FrameLoop, v2FingerDetected>>
  /\ v2LastToast' = "Medical Scanner Active"
  /\ UNCHANGED <<v2ScanNo, v2Emitted, estVars, mvsVars, winVars, fnVars>>

\* FramesPerStep animation frames, each running every pending processAudio
\* callback and the pending processFrame; the finger flag is the one set by
\* the last of them.
V2AnimationFrames ==
  /\ v2FrameLoop \/ v2AudioLoops > 0
  /\ IF v2AudioIsProcessing /\ v2AudioAnalyser
     THEN /\ v2AudioSamples' = Min(v2AudioSamples + FramesPerStep * v2AudioLoops, windowSizeAudioV2)
          /\ UNCHANGED v2AudioLoops
     ELSE /\ v2AudioLoops' = 0
          /\ UNCHANGED v2AudioSamples
  /\ IF v2FrameLoop
     THEN /\ v2PpgSamples' = Min(v2PpgSamples + FramesPerStep, windowSize)
          /\ \E covered \in BOOLEAN :
               v2FingerDetected' = (v2PpgSamples' >= CoverageWindow /\ covered)
     ELSE UNCHANGED <<v2PpgSamples, v2FingerDetected>>
  /\ UNCHANGED <<v2IsScanning, v2Progress, v2AudioAnalyser, v2AudioIsProcessing,
                 v2FrameLoop, v2Pc, v2ScanNo, v2Emitted, v2LastToast,
                 estVars, mvsVars, winVars, fnVars>>

\* The 200 ms interval of the analysis effect
V2Tick ==
  /\ v2IsScanning /\ v2FingerDetected
  /\ v2Progress' = Min(ProgressFull, v2Progress + ProgressStep)
  /\ IF v2Progress' >= ProgressFull
     THEN \E good \in {22, 30}, iv \in V2PeakChoices, pct \in {60, 95},
             iv2 \in V2AudioPeakChoices :
            LET hr == processHeartRateV2(v2PpgSamples, good, PeaksFrom(FirstPeak, iv), pct)
                audio == audioProcessHeartRate(v2AudioSamples, PeaksFrom(FirstPeak, iv2))
                out == analyzeV2(hr, audio, NoSpO2)
            IN IF out.emitted
               THEN /\ v2Emitted' = v2Emitted + 1
                    /\ v2IsScanning' = FALSE
                    /\ v2FrameLoop' = FALSE
               ELSE UNCHANGED <<v2Emitted, v2IsScanning, v2FrameLoop>>
     ELSE UNCHANGED <<v2Emitted, v2IsScanning, v2FrameLoop>>
  /\ UNCHANGED <<v2FingerDetected, v2PpgSamples, v2AudioAnalyser,
                 v2AudioIsProcessing, v2AudioSamples, v2AudioLoops, v2Pc,
                 v2ScanNo, v2LastToast, estVars, mvsVars, winVars, fnVars>>

V2StopScanning ==
  /\ v2IsScanning
  /\ v2IsScanning' = FALSE
  /\ v2Progress' = 0
  /\ v2FingerDetected' = FALSE
  /\ v2PpgSamples' = 0
  /\ v2AudioIsProcessing' = FALSE
  /\ v2FrameLoop' = FALSE
  /\ UNCHANGED <<v2AudioAnalyser, v2AudioSamples, v2AudioLoops, v2Pc, v2ScanNo,
                 v2Emitted, v2LastToast, estVars, mvsVars, winVars, fnVars>>

InitV2 ==
  /\ V2Mounted
  /\ isMobile = TRUE /\ MvsMounted /\ WinMounted /\ FnMounted
  /\ estIn = NoInput /\ estOut = NoOutput

NextV2 ==
  \/ V2StartScanning
  \/ V2StopScanning
  \/ V2AnimationFrames
  \/ V2Tick
  \/ \E s \in Scans : V2CameraResolves(s)
  \/ \E s \in Scans : V2CameraRejects(s)
  \/ \E s \in Scans : V2AudioInitSettles(s)

SpecV2 == InitV2 /\ [][NextV2]_vars

\* Promises settle, animation frames and interval ticks keep coming.
FairSpecV2 ==
  /\ SpecV2
  /\ WF_vars(V2AnimationFrames)
  /\ WF_vars(V2Tick)
  /\ \A s \in Scans : WF_vars(V2CameraResolves(s) \/ V2CameraRejects(s))
  /\ \A s \in Scans : WF_vars(V2AudioInitSettles(s))

\* C4: a scan that is started and not cancelled eventually leaves the
\* scanning state, with a result or as failed.
C4_ScanEventuallyEnds == v2IsScanning ~> ~v2IsScanning


(***************************************************************************)
(* SpecWin: one PPGProcessor fed by the frame handler.  The camera shows a *)
(* scene: samples of one kind up to frame switchAt, of another kind after  *)
(* it.  A sample carries the channel means, the frame number as timestamp  *)
(* and its brightness (r + g + b) / 3 as the sum r + g + b.                *)
(***************************************************************************)
MaxPushes == 455
BrightnessMin == 120
BrightnessMax == 220
RedFloor == 100
RealtimeMinSamples == 90
RealtimePeriod == 30
GreenPulse == 3

Sample(r, g, b, t) ==
  [red |-> r, green |-> g, blue |-> b, timestamp |-> t, brightness |-> r + g + b]

\* The green channel under a finger: a pulse of height GreenPulse every
\* RealtimePeriod frames over a flat level.
Pulse(t) ==
  Max(0, GreenPulse - Abs((t % RealtimePeriod) - (RealtimePeriod \div 2)))

\* What the camera delivers at frame t: a finger over the lens, lit by the
\* torch ("finger") or strongly lit ("bright"); a frame whose brightness is
\* exactly 120 ("dim") or exactly 220 ("glare"); no finger ("ambient").
SampleOfKind(kind, t) ==
  CASE kind = "finger" -> Sample(200, 100 + Pulse(t), 90, t)
    [] kind = "bright" -> Sample(255, 200 + Pulse(t), 195, t)
    [] kind = "dim" -> Sample(160, 100, 100, t)
    [] kind = "glare" -> Sample(255, 203, 202, t)
    [] OTHER -> Sample(100, 100, 95, t)
SceneSample(sc, t) ==
  SampleOfKind(IF t <= sc.switchAt THEN sc.first ELSE sc.second, t)

Scenes ==
  {[first |-> "finger", second |-> k, switchAt |-> 100] : k \in {"finger", "dim", "ambient"}}
  \cup {[first |-> k, second |-> "finger", switchAt |-> 20] : k \in {"dim", "ambient"}}
  \cup {[first |-> "bright", second |-> "glare", switchAt |-> 100]}

\* PPGProcessor.addSample on the window
addSampleKeepOldest(window, sample) ==
  IF Len(window) < windowSize THEN Append(window, sample) ELSE window
addSampleTo(window, sample) ==
  LET grown == Append(window, sample)
  IN IF Len(grown) > windowSize
     THEN SubSeq(grown, Len(grown) - windowSize + 1, Len(grown))
     ELSE grown

\* samples.slice(-k)
LastOf(window, k) == SubSeq(window, Max(1, Len(window) - k + 1), Len(window))

brightnessGood(sample) ==
  sample.brightness > 3 * BrightnessMin /\ sample.brightness < 3 * BrightnessMax
redDominance(sample) == sample.red > sample.green /\ sample.red > sample.blue
redStrength(sample) == sample.red > RedFloor

\* goodSamples, counted over samples.slice(-30)
goodSamples(window) ==
  LET recent == LastOf(window, CoverageWindow)
  IN Cardinality({i \in 1..Len(recent) :
                    brightnessGood(recent[i]) /\ redDominance(recent[i])
                      /\ redStrength(recent[i])})

\* processFrame's test for a poor signal: coverage < 0.5 (coverage is in
\* thirtieths) and more than 150 frames counted by the render.
FallbackAfterFrames == 150
LowCoverage(cov) == 2 * cov < CoverageWindow
PoorSignal(cov, frames) == LowCoverage(cov) /\ frames > FallbackAfterFrames

suggestFallbackMethod(fallback) ==
  IF fallback = "none" THEN "accelerometer" ELSE fallback

TooFewForRealtimeLoose(window) == Len(window) < CoverageWindow
TooFewForRealtime(window) == Len(window) < RealtimeMinSamples

RealtimeBpm(b) == [ok |-> TRUE, bpm |-> b]
getRealtimeBPM(window) ==
  IF TooFewForRealtime(window) THEN NoRealtimeBpm
  ELSE LET recent == LastOf(window, RealtimeMinSamples)
           greenChannel == [i \in 1..Len(recent) |-> recent[i].green]
           peaks == findAdaptivePeaks(IntegerMultiple(meanDetrend(greenChannel)))
       IN IF Len(peaks) < 3 THEN NoRealtimeBpm
          ELSE LET intervals == calculateIntervals(peaks)
                   bpm == RoundDiv(60 * sampleRate * Len(intervals), SumSeq(intervals))
               IN IF bpm >= 40 /\ bpm <= 200 THEN RealtimeBpm(bpm) ELSE NoRealtimeBpm

InitWin ==
  /\ scene \in Scenes
  /\ samples = <<>> /\ pushed = 0 /\ coverage = 0
  /\ rtMeasured = NoRealtimeBpm /\ rtUpdates = 0
  /\ frameCount = 0 /\ fallbackMethod = "none" /\ lowFrames = 0
  /\ isMobile = TRUE /\ MvsMounted /\ V2Mounted /\ FnMounted
  /\ estIn = NoInput /\ estOut = NoOutput

\* startScanning: ppgProcessorRef.current.reset() for a new scan, with
\* setFrameCount(0) and setFallbackMethod("none").  The real-time BPM on
\* display is left as it is.
ResetProcessor ==
  /\ samples' = <<>> /\ pushed' = 0 /\ coverage' = 0 /\ rtUpdates' = 0
  /\ frameCount' = 0 /\ fallbackMethod' = "none" /\ lowFrames' = 0
  /\ UNCHANGED <<scene, rtMeasured, estVars, mvsVars, v2Vars, fnVars>>

\* processFrame of a render in which isScanning is true: one sample is
\* added, the coverage is read, and a real-time BPM, if there is one, is
\* handed to the smoother and put on display (rtMeasured is the value
\* handed over, rtUpdates counts the updates of the display in this scan).
\* With a coverage below 0.5 and the render's frameCount above 150 it calls
\* suggestFallbackMethod; then it counts the frame.  lowFrames records for
\* how many frames in a row, this one included, the coverage has been below
\* 0.5.
ProcessFrame ==
  /\ pushed < MaxPushes
  /\ LET window == addSampleTo(samples, SceneSample(scene, pushed + 1))
         rtBPM == getRealtimeBPM(window)
         cov == getFingerCoverage(Len(window), goodSamples(window))
     IN /\ samples' = window
        /\ pushed' = pushed + 1
        /\ coverage' = cov
        /\ rtMeasured' = IF rtBPM.ok THEN rtBPM ELSE rtMeasured
        /\ rtUpdates' = IF rtBPM.ok THEN rtUpdates + 1 ELSE rtUpdates
        /\ fallbackMethod' = IF PoorSignal(cov, frameCount)
                             THEN suggestFallbackMethod(fallbackMethod)
                             ELSE fallbackMethod
        /\ lowFrames' = IF LowCoverage(cov) THEN lowFrames + 1 ELSE 0
  /\ frameCount' = frameCount + 1
  /\ UNCHANGED <<scene, estVars, mvsVars, v2Vars, fnVars>>

\* processFrame of the first render, the one startScanning calls: it
\* closed over isScanning = false and returns at once.
ProcessFrameCaptured ==
  /\ samples' = IF CapturedIsScanning
                THEN addSampleTo(samples, SceneSample(scene, pushed + 1)) ELSE samples
  /\ UNCHANGED <<scene, pushed, coverage, rtMeasured, rtUpdates, frameCount,
                 fallbackMethod, lowFrames, estVars, mvsVars, v2Vars, fnVars>>

NextWin ==
  \/ ResetProcessor
  \/ ProcessFrame
  \/ ProcessFrameCaptured

SpecWin == InitWin /\ [][NextWin]_vars

\* C17: after any sequence of addSample calls the sample window holds at
\* most windowSize (450) samples, and they are exactly the most recently
\* pushed samples in push order.
C17_WindowHoldsMostRecent ==
  /\ Len(samples) = Min(pushed, windowSize)
  /\ \A i \in 1..Len(samples) :
       samples[i] = SceneSample(scene, pushed - Len(samples) + i)
C17_Witness ==
  /\ pushed = windowSize + 3 /\ Len(samples) = windowSize
  /\ samples[1].timestamp = 4 /\ samples[windowSize].timestamp = windowSize + 3

\* A valid sample in the words of C18: brightness within [120, 220], bounds
\* included, red above green and blue, red above 100.
ValidAsStated(sample) ==
  /\ sample.brightness >= 3 * BrightnessMin /\ sample.brightness <= 3 * BrightnessMax
  /\ sample.red > sample.green /\ sample.red > sample.blue
  /\ sample.red > RedFloor

\* C18: getFingerCoverage returns the fraction, in [0, 1], of the 30 most
\* recent samples that are valid, where a sample is valid exactly when its
\* brightness lies within [120, 220] (bounds included), its red mean exceeds
\* both green and blue, and its red mean is above the floor of 100.
\* (coverage is in thirtieths.)
C18_CoverageCountsValidSamples ==
  Len(samples) >= CoverageWindow
     => /\ coverage \in 0..CoverageWindow
        /\ coverage =
             Cardinality({i \in 1..CoverageWindow :
                            ValidAsStated(LastOf(samples, CoverageWindow)[i])})

\* C20: no live preliminary BPM is produced before 90 samples have been
\* collected in the current scan: getRealtimeBPM returns null with fewer
\* than 90 samples and the real-time BPM on display is not updated before
\* then.
C20_NoRealtimeBpmBeforeThreeSeconds ==
  pushed < RealtimeMinSamples
     => ~getRealtimeBPM(samples).ok /\ rtUpdates = 0
C20_Witness ==
  /\ pushed = RealtimeMinSamples /\ rtUpdates = 1
  /\ rtMeasured = RealtimeBpm(60)

RatioDenominator == 20
MaxRatio == 3

CurveInputs ==
  {[NoFnInput EXCEPT !.kind = "curve", !.r1 = r1, !.r2 = r2] :
     r1 \in 0..(MaxRatio * RatioDenominator),
     r2 \in 0..(MaxRatio * RatioDenominator)}
\* calculateSignalQuality(r, g, b, brightness, coverage), coverage in
\* thirtieths.  score = Math.max(0, Math.min(100, score)).
ClampScoreAbove(score) == Min(100, score)
ClampScore(score) == Max(0, Min(100, score))

QualityOf(score) ==
  IF score >= 85 THEN "excellent"
  ELSE IF score >= 70 THEN "good"
  ELSE IF score >= 50 THEN "fair"
  ELSE "poor"

calculateSignalQuality(r, g, b, brightness, cov) ==
  LET dark == brightness < BrightnessMin
      glaring == ~dark /\ brightness > BrightnessMax
      noDominance == r <= g \/ r <= b
      weak == Abs(r - g) < 10
      uncovered == 10 * cov < 7 * CoverageWindow
      issues ==
        (IF dark THEN <<"Too dark - ensure flash is on">> ELSE <<>>)
        \o (IF glaring THEN <<"Too bright - adjust finger pressure">> ELSE <<>>)
        \o (IF noDominance THEN <<"Poor blood flow detection">> ELSE <<>>)
        \o (IF weak THEN <<"Weak pulse signal">> ELSE <<>>)
        \o (IF uncovered THEN <<"Incomplete camera coverage">> ELSE <<>>)
      score ==
        ClampScore(100 - (IF dark THEN 30 ELSE 0) - (IF glaring THEN 20 ELSE 0)
                       - (IF noDominance THEN 25 ELSE 0) - (IF weak THEN 20 ELSE 0)
                       - (IF uncovered THEN 30 ELSE 0))
  IN [score |-> score, quality |-> QualityOf(score), issues |-> issues]

QualityInputs ==
  {[NoFnInput EXCEPT !.kind = "quality", !.r = r, !.g = g, !.b = b,
                     !.brightness = br, !.coverage = cov] :
     r \in {100, 150}, g \in {91, 100, 141, 160}, b \in {90, 200},
     br \in {BrightnessMin - 1, BrightnessMin, BrightnessMax, BrightnessMax + 1},
     cov \in {0, 20, 21, CoverageWindow}}

\* analyzeFrame of the HeartRateScanner of unnamed/part_004, lines 182-197:
\* once a second, with 60 red means or more, the peaks of the last 60 means
\* are counted against the mean of the current frame, and
\* Math.max(50, Math.min(120, peaks * 30)) goes to setCurrentBPM.
PreliminaryWindow == 60
PreliminaryFloor == 50
PreliminaryCeiling == 120

countPreliminaryPeaks(recentValues, avgRed) ==
  Cardinality({i \in 3..(Len(recentValues) - 2) :
                 /\ recentValues[i] > recentValues[i - 1]
                 /\ recentValues[i] > recentValues[i + 1]
                 /\ 100 * recentValues[i] > 102 * avgRed})

preliminaryBPM(redValues) ==
  IF Len(redValues) < PreliminaryWindow
  THEN [displayed |-> FALSE, computed |-> 0, shown |-> 0]
  ELSE LET recentValues == LastOf(redValues, PreliminaryWindow)
           peaks == countPreliminaryPeaks(recentValues, redValues[Len(redValues)])
       IN [displayed |-> TRUE, computed |-> peaks * 30,
           shown |-> Max(PreliminaryFloor, Min(PreliminaryCeiling, peaks * 30))]

\* Red means of n frames with a beat every period frames (none for 0)
RedMeans(period, n) ==
  [i \in 1..n |-> IF period > 0 /\ i % period = 1 THEN 230 ELSE 200]
PreliminaryPeriods == {0, 4, 7, 15, 20, 30}
PreliminaryInputs ==
  {[NoFnInput EXCEPT !.kind = "preliminary", !.redValues = RedMeans(period, n)] :
     period \in PreliminaryPeriods, n \in {31, 61, 91}}

\* MedicalInterpreter.interpretHeartRate(bpm, irregularity, age)
normalRange(age) ==
  IF age > 65 THEN <<60, 90>> ELSE IF age > 40 THEN <<60, 95>> ELSE <<60, 100>>

Interpreted(text, risk) == [interpretation |-> text, riskLevel |-> risk]

interpretHeartRate(bpm, irregularity, age) ==
  IF bpm < 40
  THEN Interpreted("Severe Bradycardia - Critically slow heart rate", "critical")
  ELSE IF bpm < 50
  THEN Interpreted("Bradycardia - Heart rate below normal range", "concerning")
  ELSE IF bpm >= normalRange(age)[1] /\ bpm <= normalRange(age)[2]
  THEN IF irregularity > 30
       THEN Interpreted("Normal rate but irregular rhythm detected", "monitor")
       ELSE Interpreted("Normal heart rate - Within healthy range", "normal")
  ELSE IF bpm <= 120
  THEN Interpreted("Mild Tachycardia - Elevated but manageable", "monitor")
  ELSE IF bpm <= 150
  THEN Interpreted("Moderate Tachycardia - Significant elevation", "concerning")
  ELSE IF bpm <= 180
  THEN Interpreted("Severe Tachycardia - Dangerously high rate", "critical")
  ELSE Interpreted("Extreme Tachycardia - Life-threatening rate", "critical")

DefaultAge == 35
InterpretedBpms == (30..125) \cup {150, 151, 180, 181, 220}
InterpretInputs ==
  {[NoFnInput EXCEPT !.kind = "interpret", !.bpm = bpm, !.irregularity = irr,
                     !.age = age] :
     bpm \in InterpretedBpms, irr \in {0, 30, 31}, age \in {DefaultAge, 41, 66}}

FnInputs ==
  CurveInputs \cup QualityInputs \cup PreliminaryInputs \cup InterpretInputs

InitFn ==
  /\ fnIn \in FnInputs
  /\ fnOut = NoFnOutput
  /\ isMobile = TRUE /\ MvsMounted /\ V2Mounted /\ WinMounted
  /\ estIn = NoInput /\ estOut = NoOutput

\* estimateSpO2's calibration of two ratios
RunCalibration ==
  /\ fnIn.kind = "curve" /\ ~fnOut.done
  /\ fnOut' = [NoFnOutput EXCEPT
                 !.done = TRUE,
                 !.first = CalibratedTimes(fnIn.r1, RatioDenominator),
                 !.second = CalibratedTimes(fnIn.r2, RatioDenominator),
                 !.firstPct = RoundDiv(CalibratedTimes(fnIn.r1, RatioDenominator),
                                       RatioDenominator),
                 !.secondPct = RoundDiv(CalibratedTimes(fnIn.r2, RatioDenominator),
                                        RatioDenominator)]
  /\ UNCHANGED <<fnIn, estVars, mvsVars, v2Vars, winVars>>

RunCalculateSignalQuality ==
  /\ fnIn.kind = "quality" /\ ~fnOut.done
  /\ LET q == calculateSignalQuality(fnIn.r, fnIn.g, fnIn.b, fnIn.brightness,
                                     fnIn.coverage)
     IN fnOut' = [NoFnOutput EXCEPT !.done = TRUE, !.score = q.score,
                                    !.quality = q.quality, !.issues = q.issues]
  /\ UNCHANGED <<fnIn, estVars, mvsVars, v2Vars, winVars>>

RunPreliminaryBPM ==
  /\ fnIn.kind = "preliminary" /\ ~fnOut.done
  /\ LET out == preliminaryBPM(fnIn.redValues)
     IN fnOut' = [NoFnOutput EXCEPT !.done = TRUE, !.displayed = out.displayed,
                                    !.computed = out.computed, !.shown = out.shown]
  /\ UNCHANGED <<fnIn, estVars, mvsVars, v2Vars, winVars>>

RunInterpretHeartRate ==
  /\ fnIn.kind = "interpret" /\ ~fnOut.done
  /\ LET out == interpretHeartRate(fnIn.bpm, fnIn.irregularity, fnIn.age)
     IN fnOut' = [NoFnOutput EXCEPT !.done = TRUE,
                                    !.interpretation = out.interpretation,
                                    !.riskLevel = out.riskLevel]
  /\ UNCHANGED <<fnIn, estVars, mvsVars, v2Vars, winVars>>

NextFn ==
  \/ RunInterpretHeartRate
  \/ RunPreliminaryBPM
  \/ RunCalibration
  \/ RunCalculateSignalQuality

SpecFn == InitFn /\ [][NextFn]_vars

\* C23: the calibration curve from the ratio R to SpO2 is monotonic: for
\* every R1 <= R2 the SpO2 computed for R1 is at least the SpO2 computed for
\* R2, across all segments and their breakpoints 0.5, 1.0 and 2.0 (before
\* and after rounding).
C23_CalibrationMonotonic ==
  fnIn.kind = "curve" /\ fnOut.done /\ fnIn.r1 <= fnIn.r2
     => fnOut.first >= fnOut.second /\ fnOut.firstPct >= fnOut.secondPct
\* R1 = 0.95 and R2 = 1.0, on either side of a breakpoint: 86.25 and 85
C23_Witness ==
  /\ fnIn.kind = "curve" /\ fnOut.done
  /\ fnIn.r1 = RatioDenominator - 1 /\ fnIn.r2 = RatioDenominator
  /\ fnOut.first = 1725 /\ fnOut.second = 1700
  /\ fnOut.firstPct = 86 /\ fnOut.secondPct = 85

\* The tier in the words of C25
TierAsStated(score) ==
  CASE score >= 85 -> "excellent"
    [] score \in 70..84 -> "good"
    [] score \in 50..69 -> "fair"
    [] OTHER -> "poor"

\* C25: calculateSignalQuality returns a score in [0, 100] and a tier fully
\* determined by the score (excellent from 85, good for 70..84, fair for
\* 50..69, poor below 50), and the issues list is non-empty exactly when the
\* score is below 100.
C25_ScoreTierIssues ==
  fnIn.kind = "quality" /\ fnOut.done
     => /\ fnOut.score \in 0..100
        /\ fnOut.quality = TierAsStated(fnOut.score)
        /\ (fnOut.issues # <<>>) <=> (fnOut.score < 100)
\* Too dark, no red dominance, weak pulse, incomplete coverage: the
\* deductions add up to 105 and the score is clamped to 0.
C25_Witness ==
  /\ fnIn.kind = "quality" /\ fnOut.done
  /\ fnIn.r = 100 /\ fnIn.g = 100 /\ fnIn.brightness = BrightnessMin - 1
  /\ fnIn.coverage = 20
  /\ fnOut.score = 0 /\ fnOut.quality = "poor" /\ Len(fnOut.issues) = 4
C25_WitnessNoIssue ==
  /\ fnIn.kind = "quality" /\ fnOut.done
  /\ fnOut.score = 100 /\ fnOut.quality = "excellent" /\ fnOut.issues = <<>>

\* The hard physiological range of a heart rate
PhysiologicalBpm == 35..220

\* C26: a live preliminary BPM whose computed value is outside the
\* physiological range is rejected (not shown), never clamped to a bound and
\* displayed as if valid: what is displayed is the computed value, and it is
\* in range.
C26_PreliminaryBpmRejectedNotClamped ==
  fnIn.kind = "preliminary" /\ fnOut.done /\ fnOut.displayed
     => fnOut.shown = fnOut.computed /\ fnOut.computed \in PhysiologicalBpm

TachycardiaInterpretations ==
  {"Mild Tachycardia - Elevated but manageable",
   "Moderate Tachycardia - Significant elevation",
   "Severe Tachycardia - Dangerously high rate",
   "Extreme Tachycardia - Life-threatening rate"}
BradycardiaInterpretations ==
  {"Severe Bradycardia - Critically slow heart rate",
   "Bradycardia - Heart rate below normal range"}

\* C30: MedicalInterpreter.interpretHeartRate gives a tachycardia
\* interpretation only to a heart rate above the upper bound of the normal
\* range, and a bradycardia interpretation only to a heart rate below the
\* lower bound; a heart rate between 50 and the lower bound of the normal
\* range is never labelled tachycardia.
C30_TachycardiaOnlyAboveNormal ==
  fnIn.kind = "interpret" /\ fnOut.done
     => /\ fnOut.interpretation \in TachycardiaInterpretations
             => fnIn.bpm > normalRange(fnIn.age)[2]
        /\ fnOut.interpretation \in BradycardiaInterpretations
             => fnIn.bpm < normalRange(fnIn.age)[1]

====
